---- MODULE Spec2Model ----
(***************************************************************************)
(* A model of benchexec/model.py: the classification of a completed run    *)
(* (Run.set_result, Run._analyze_result, Run._is_timeout), the             *)
(* construction of a Run (Run.__init__ with log_property_file_once), the   *)
(* expansion of a <tasks> block (RunSet.get_task_def_files_from_xml), the  *)
(* selection of blocks (RunSet.extract_runs_from_xml), the Runs of         *)
(* task-definition files (RunSet.create_run_from_task_definition) and the  *)
(* construction of a Benchmark with its limits, its Requirements and its   *)
(* RunSets (Benchmark.__init__, Requirements.__init__, RunSet.__init__).   *)
(*                                                                         *)
(* Python values are modelled as follows: a dict is a function whose       *)
(* DOMAIN is the set of its keys; a list is a sequence; None is the        *)
(* string None below where the value is otherwise a string, and the empty  *)
(* sequence <<>> where it is otherwise a record (the value v being <<v>>). *)
(***************************************************************************)
EXTENDS Integers, Sequences, FiniteSets, TLC

VARIABLES
    rlimits,      \* Benchmark.rlimits: dict limit kind -> value
    columns,      \* Benchmark.columns: the column templates
    runs,         \* the constructed Run objects: dict run id -> Run
    lastCall,     \* history: the arguments of the latest set_result call
    logged,       \* _logged_missing_property_files
    warnings,     \* history: number of warnings logged per property-file key
    wpc,          \* per worker: position inside Run.__init__
    wkey,         \* per worker: self.propertyfile at the pending log call
    block,        \* the <tasks> tag given to get_task_def_files_from_xml
    expansion,    \* its outcome: the list returned, the calls made, the exit
    tagList,      \* sourcefilesTagList of extract_runs_from_xml
    selected,     \* config.selected_sourcefile_sets
    extraction,   \* its outcome: the blocks built and the warnings logged
    taskBlock,    \* a <tasks> tag of task-definition files and its property file
    taskRuns,     \* the outcome of the loop of extract_runs_from_xml over it
    document,     \* rootTag: the parsed benchmark definition
    config,       \* the command-line configuration
    benchmark,    \* the outcome of Benchmark.__init__
    requirements  \* the outcome of Requirements.__init__

classifyVars == <<rlimits, columns, runs, lastCall>>
logVars == <<logged, warnings, wpc, wkey>>
expandVars == <<block, expansion>>
selectVars == <<tagList, selected, extraction>>
taskVars == <<taskBlock, taskRuns>>
benchVars == <<document, config, benchmark, requirements>>
vars == <<rlimits, columns, runs, lastCall, logged, warnings, wpc, wkey,
          block, expansion, tagList, selected, extraction,
          taskBlock, taskRuns, document, config, benchmark, requirements>>

\* ------------------------------------------------------------------ bounds
NumRuns == 2        \* Run objects of the run-lifecycle specification
MaxCalls == 2       \* set_result calls per Run of the run-lifecycle specification

\* ----------------------------------------------------------- Python values
None == "<None>"

\* Python truthiness of an optional string: neither None nor "".
Truthy(s) == s # None /\ s # ""

\* "{} ({})".format(a, b)
Format(a, b) == a \o " (" \o b \o ")"

\* dict.get(key) for string-valued entries
Get(dict, key) == IF key \in DOMAIN dict THEN dict[key] ELSE None

\* ------------------------------------------------------ module constants
TIMELIMIT == "timelimit"
SOFTTIMELIMIT == "softtimelimit"
WALLTIMELIMIT == "walltimelimit"

ERROR_RESULTS_FOR_TERMINATION_REASON ==
    [r \in {"memory", "killed", "failed", "files-count", "files-size"} |->
        CASE r = "memory" -> "OUT OF MEMORY"
          [] r = "killed" -> "KILLED"
          [] r = "failed" -> "FAILED"
          [] r = "files-count" -> "FILES-COUNT LIMIT"
          [] r = "files-size" -> "FILES-SIZE LIMIT"]

\* benchexec.result (not part of model.py): the constants model.py reads.
RESULT_ERROR == "ERROR"
RESULT_UNKNOWN == "unknown"
RESULT_DONE == "done"
RESULT_LIST_OTHER == {RESULT_DONE, RESULT_UNKNOWN, RESULT_ERROR}
CATEGORY_UNKNOWN == "unknown"

\* benchexec.result.get_result_category: a pure function of the expected
\* results, the status and the properties.
get_result_category(expected_results, status, properties) ==
    IF status \in {"TRUE", "FALSE(reach)"}
    THEN IF properties = <<>> \/ expected_results = <<>> THEN "missing"
         ELSE IF (status = "TRUE") = expected_results[1] THEN "correct"
         ELSE "wrong"
    ELSE IF status = RESULT_UNKNOWN THEN CATEGORY_UNKNOWN
    ELSE "error"

\* tool.get_value_from_output(output, text): the tool adapter's extraction.
get_value_from_output(output, text) == output \o ":" \o text

\* ----------------------------------------------------------- Run.set_result
EmptyDict == <<>>

\* One dict entry key -> opt[1], or no entry when opt is <<>>.
Entry(key, opt) == IF opt = <<>> THEN EmptyDict ELSE key :> opt[1]

\* values.pop("exitcode", None)
ExitcodeOf(values) ==
    IF "exitcode" \in DOMAIN values THEN <<values["exitcode"]>> ELSE <<>>

\* The key under which set_result stores values[key] in self.values.
StoredKey(key, visible_columns) ==
    IF key \in {"walltime", "cputime", "memory", "cpuenergy"} THEN key
    ELSE IF key \in visible_columns THEN key
    ELSE "@" \o key

\* self.values after the first part of set_result.
StoreValues(self_values, values, visible_columns) ==
    LET exitcode == ExitcodeOf(values)
        exitEntry ==
            IF exitcode = <<>> THEN EmptyDict
            ELSE IF exitcode[1].signal # 0
                 THEN "@exitsignal" :> exitcode[1].signal
                 ELSE "@returnvalue" :> exitcode[1].value
        keys == DOMAIN values \ {"exitcode"}
        stored == [k \in {StoredKey(key, visible_columns) : key \in keys} |->
                      values[CHOOSE key \in keys :
                                 StoredKey(key, visible_columns) = k]]
    IN stored @@ exitEntry @@ self_values

\* Run._is_timeout with a measured value at its limit counted as over it.
is_timeout_AtLimit(self_values, limits) ==
    LET is_cpulimit ==
            IF "cputime" \notin DOMAIN self_values THEN FALSE
            ELSE IF SOFTTIMELIMIT \in DOMAIN limits
                 THEN self_values["cputime"] >= limits[SOFTTIMELIMIT]
            ELSE IF TIMELIMIT \in DOMAIN limits
                 THEN self_values["cputime"] >= limits[TIMELIMIT]
            ELSE FALSE
        is_walllimit ==
            IF "walltime" \notin DOMAIN self_values THEN FALSE
            ELSE IF WALLTIMELIMIT \in DOMAIN limits
                 THEN self_values["walltime"] >= limits[WALLTIMELIMIT]
            ELSE FALSE
    IN is_cpulimit \/ is_walllimit

\* Run._is_timeout
is_timeout(self_values, limits) ==
    LET is_cpulimit ==
            IF "cputime" \notin DOMAIN self_values THEN FALSE
            ELSE IF SOFTTIMELIMIT \in DOMAIN limits
                 THEN self_values["cputime"] > limits[SOFTTIMELIMIT]
            ELSE IF TIMELIMIT \in DOMAIN limits
                 THEN self_values["cputime"] > limits[TIMELIMIT]
            ELSE FALSE
        is_walllimit ==
            IF "walltime" \notin DOMAIN self_values THEN FALSE
            ELSE IF WALLTIMELIMIT \in DOMAIN limits
                 THEN self_values["walltime"] > limits[WALLTIMELIMIT]
            ELSE FALSE
    IN is_cpulimit \/ is_walllimit

\* isTimeout as set_result computes it.
IsTimeout(termination_reason, self_values, limits) ==
    termination_reason \in {"cputime", "cputime-soft", "walltime"}
        \/ is_timeout(self_values, limits)

\* RefineToolStatus without the branch for signal 11.
RefineToolStatus_NoSegfault(exitcode, tool_status) ==
    IF tool_status \in RESULT_LIST_OTHER
    THEN IF exitcode.signal = 6 THEN "ABORTED"
         ELSE IF exitcode.signal = 15 THEN "KILLED"
         ELSE IF exitcode.signal # 0
              THEN "KILLED BY SIGNAL " \o ToString(exitcode.signal)
         ELSE IF exitcode.value # 0
              THEN Format(RESULT_ERROR, ToString(exitcode.value))
         ELSE tool_status
    ELSE tool_status

\* RefineToolStatus without the test of the unspecific bucket.
RefineToolStatus_AnyVerdict(exitcode, tool_status) ==
    IF exitcode.signal = 6 THEN "ABORTED"
    ELSE IF exitcode.signal = 11 THEN "SEGMENTATION FAULT"
    ELSE IF exitcode.signal = 15 THEN "KILLED"
    ELSE IF exitcode.signal # 0
         THEN "KILLED BY SIGNAL " \o ToString(exitcode.signal)
    ELSE IF exitcode.value # 0
         THEN Format(RESULT_ERROR, ToString(exitcode.value))
    ELSE tool_status

\* The refinement of an unspecific tool status by the exit signal or value.
RefineToolStatus(exitcode, tool_status) ==
    IF tool_status \in RESULT_LIST_OTHER
    THEN IF exitcode.signal = 6 THEN "ABORTED"
         ELSE IF exitcode.signal = 11 THEN "SEGMENTATION FAULT"
         ELSE IF exitcode.signal = 15 THEN "KILLED"
         ELSE IF exitcode.signal # 0
              THEN "KILLED BY SIGNAL " \o ToString(exitcode.signal)
         ELSE IF exitcode.value # 0
              THEN Format(RESULT_ERROR, ToString(exitcode.value))
         ELSE tool_status
    ELSE tool_status

\* tool_status of _analyze_result: exitcode is <<>> or <<descriptor>>, verdict
\* is what tool.determine_result returns for it.
ToolStatus(exitcode, verdict) ==
    IF exitcode = <<>> THEN None ELSE RefineToolStatus(exitcode[1], verdict)

\* ResourceStatus with the termination reason tested before the timeout.
ResourceStatus_ReasonFirst(isTimeout, termination_reason) ==
    IF Truthy(termination_reason)
    THEN IF termination_reason \in DOMAIN ERROR_RESULTS_FOR_TERMINATION_REASON
         THEN ERROR_RESULTS_FOR_TERMINATION_REASON[termination_reason]
         ELSE termination_reason
    ELSE IF isTimeout THEN "TIMEOUT"
    ELSE None

\* status of _analyze_result before it is combined with tool_status.
ResourceStatus(isTimeout, termination_reason) ==
    IF isTimeout THEN "TIMEOUT"
    ELSE IF Truthy(termination_reason)
         THEN IF termination_reason \in DOMAIN ERROR_RESULTS_FOR_TERMINATION_REASON
              THEN ERROR_RESULTS_FOR_TERMINATION_REASON[termination_reason]
              ELSE termination_reason
    ELSE None

\* CombineStatus without "KILLED" and "KILLED BY SIGNAL 9" in the exclusions.
CombineStatus_KilledCombined(status, tool_status) ==
    IF ~Truthy(status) THEN tool_status
    ELSE IF Truthy(tool_status) /\ tool_status \notin (RESULT_LIST_OTHER \cup {status})
         THEN Format(status, tool_status)
    ELSE status

\* The last part of _analyze_result.
CombineStatus(status, tool_status) ==
    IF ~Truthy(status) THEN tool_status
    ELSE IF Truthy(tool_status)
            /\ tool_status \notin
                 (RESULT_LIST_OTHER \cup {status, "KILLED", "KILLED BY SIGNAL 9"})
         THEN Format(status, tool_status)
    ELSE status

\* Run._analyze_result
analyze_result(exitcode, verdict, isTimeout, termination_reason) ==
    CombineStatus(ResourceStatus(isTimeout, termination_reason),
                  ToolStatus(exitcode, verdict))

\* The loop over self.columns of set_result; it reads self.sourcefiles[0].
ExtractColumns(run, output) ==
    IF run.columns # <<>> /\ run.sourcefiles = <<>>
    THEN [run EXCEPT !.raised = "IndexError"]
    ELSE [run EXCEPT !.columns =
             [i \in DOMAIN run.columns |->
                 [run.columns[i] EXCEPT
                     !.value = get_value_from_output(output, run.columns[i].text)]]]

\* Run.set_result: the Run after the call set_result(values, visible_columns),
\* verdict being what tool.determine_result returns and output the log content.
set_result(run, values, visible_columns, verdict, output, limits) ==
    LET exitcode == ExitcodeOf(values)
        self_values == StoreValues(run.values, values, visible_columns)
        termination_reason == Get(values, "terminationreason")
        isTimeout == IsTimeout(termination_reason, self_values, limits)
        status == analyze_result(exitcode, verdict, isTimeout, termination_reason)
        category == get_result_category(run.expected_results, status, run.properties)
    IN ExtractColumns([run EXCEPT !.values = self_values,
                                  !.status = status,
                                  !.category = category,
                                  !.calls = @ + 1,
                                  !.raised = None],
                      output)

\* RunsAfterSetResult with the status kept in one place shared by all Runs.
RunsAfterSetResult_SharedStatus(rs, r, new) ==
    [q \in DOMAIN rs |-> IF q = r THEN new ELSE [rs[q] EXCEPT !.status = new.status]]

\* RunsAfterSetResult with the Column objects of the benchmark used by every
\* Run instead of copies.
RunsAfterSetResult_SharedColumns(rs, r, new) ==
    [q \in DOMAIN rs |->
        IF q = r THEN new
        ELSE [rs[q] EXCEPT !.columns =
                 IF Len(@) = Len(new.columns) THEN new.columns ELSE @]]

\* The Run objects after set_result on Run r: only that Run is written.
RunsAfterSetResult(rs, r, new) == [rs EXCEPT ![r] = new]

\* ------------------------------------------------------------- Run.__init__
\* util.expand_filename_pattern(self.propertyfile, base_dir) for the property
\* files the model declares: one that exists, a pattern matching two files,
\* and two that match nothing.
ExpandPropertyFile(propertyfile) ==
    CASE propertyfile = "ok.prp" -> <<"ok.prp">>
      [] propertyfile = "*.prp" -> <<"ok.prp", "other.prp">>
      [] OTHER -> <<>>

\* os.path.isfile(substitute_vars([self.propertyfile], ...)[0])
IsFileAfterSubstitution(propertyfile) == propertyfile = "${inputfile_path}/ALL.prp"

PropertyFileDecls == {None, "ok.prp", "*.prp", "missing.prp", "${inputfile_path}/ALL.prp"}

\* The property-file part of Run.__init__ for self.propertyfile = propertyfile:
\* whether log_property_file_once is called (with which key, the value of
\* self.propertyfile at the call) and the final self.propertyfile.
ResolvePropertyFile(propertyfile) ==
    LET expanded == ExpandPropertyFile(propertyfile)
    IN IF propertyfile = None
       THEN [logs |-> TRUE, key |-> None, propertyfile |-> None]
       ELSE IF expanded # <<>>
            THEN [logs |-> Len(expanded) > 1, key |-> propertyfile,
                  propertyfile |-> expanded[1]]
       ELSE IF IsFileAfterSubstitution(propertyfile)
            THEN [logs |-> FALSE, key |-> propertyfile, propertyfile |-> propertyfile]
       ELSE [logs |-> TRUE, key |-> propertyfile, propertyfile |-> None]

\* log_property_file_once, the test: not self.propertyfile in the set.
LogTest(key, logged_files) == key \notin logged_files

\* log_property_file_once, the insertion.
LogAdd(key, logged_files) == logged_files \cup {key}

\* The Run that Run.__init__ leaves: own copies of the benchmark's columns,
\* no values, the dummy status and category.
NewRun(identifier, sourcefiles, propertyfile, benchmark_columns) ==
    [identifier |-> identifier,
     sourcefiles |-> sourcefiles,
     propertyfile |-> ResolvePropertyFile(propertyfile).propertyfile,
     properties |-> <<>>,
     expected_results |-> <<>>,
     columns |-> [i \in DOMAIN benchmark_columns |->
                     [text |-> benchmark_columns[i].text, value |-> ""]],
     values |-> EmptyDict,
     status |-> "",
     category |-> CATEGORY_UNKNOWN,
     calls |-> 0,
     raised |-> None]

\* What create_run_for_input_file / create_run_from_task_definition fill in
\* for a Run with a property file: its property and the expected verdict.
WithExpectedResult(run, expected) ==
    IF run.propertyfile = None THEN run
    ELSE [run EXCEPT !.properties = <<run.propertyfile>>,
                     !.expected_results = expected]

\* ------------------------------------------------ the inputs of the model
RunIds == 1..NumRuns

\* Resolved limits: none, a time limit, a soft and a hard time limit, a
\* wall-time limit.
RlimitChoices ==
    {EmptyDict,
     TIMELIMIT :> 10,
     (SOFTTIMELIMIT :> 5) @@ (TIMELIMIT :> 10),
     WALLTIMELIMIT :> 10}

ColumnChoices == {<<>>, <<[text |-> "score", value |-> ""]>>}

\* A task file with one input file, and a <withoutfile> run.
RunKinds ==
    {[identifier |-> "a.c", sourcefiles |-> <<"a.c">>],
     [identifier |-> "nofile", sourcefiles |-> <<>>]}

ExitCodes ==
    {[value |-> 0, signal |-> 0], [value |-> 1, signal |-> 0]}
        \cup {[value |-> 0, signal |-> s] : s \in {6, 9, 11, 15}}

\* What tool.determine_result may return.
Verdicts ==
    {"TRUE", "FALSE(reach)", RESULT_UNKNOWN, RESULT_ERROR, "TIMEOUT",
     "OUT OF MEMORY", "KILLED", "KILLED BY SIGNAL 9", ""}

TerminationReasons ==
    {"memory", "killed", "failed", "files-count", "files-size",
     "cputime", "cputime-soft", "walltime", "user-abort"}

\* The dict of an execution result, from its optional parts.
Outcome(exitcode, termination_reason, cputime, walltime) ==
    Entry("exitcode", exitcode) @@ Entry("terminationreason", termination_reason)
        @@ Entry("cputime", cputime) @@ Entry("walltime", walltime)

Opt(S) == {<<>>} \cup {<<x>> : x \in S}

RawOutcomes ==
    {Outcome(e, t, c, w) : e \in Opt(ExitCodes), t \in Opt(TerminationReasons),
                           c \in Opt({10, 11}), w \in Opt({10, 11})}

\* Two results for the run-lifecycle specification: a normal exit, and a
\* kill by signal 9 after the memory limit.
SmallOutcomes ==
    {Outcome(<<[value |-> 0, signal |-> 0]>>, <<>>, <<>>, <<>>),
     Outcome(<<[value |-> 0, signal |-> 9]>>, <<"memory">>, <<>>, <<>>)}

\* ----------------------------------------------------------------- actions
TypeOK ==
    /\ rlimits \in RlimitChoices
    /\ columns \in ColumnChoices
    /\ DOMAIN runs \subseteq RunIds

NoCall ==
    [run |-> 0, exitcode |-> <<>>, termination_reason |-> None,
     isTimeout |-> FALSE, verdict |-> None]

Init ==
    /\ rlimits \in RlimitChoices
    /\ columns \in ColumnChoices
    /\ runs = EmptyDict
    /\ lastCall = NoCall
    /\ logged = {}
    /\ warnings = EmptyDict
    /\ wpc = [w \in RunIds |-> "idle"]
    /\ wkey = [w \in RunIds |-> None]
    /\ block = <<>>
    /\ expansion = <<>>
    /\ tagList = <<>>
    /\ selected = <<>>
    /\ extraction = <<>>
    /\ taskBlock = <<>>
    /\ taskRuns = <<>>
    /\ document = <<>>
    /\ config = <<>>
    /\ benchmark = <<>>
    /\ requirements = <<>>

\* The warnings after one more warning for key.
Warned(count, key) ==
    IF key \in DOMAIN count THEN [count EXCEPT ![key] = @ + 1]
    ELSE (key :> 1) @@ count

\* Run.__init__ as one step: Run r is constructed, log_property_file_once
\* included.
Construct(r, kind, propertyfile, expected) ==
    LET res == ResolvePropertyFile(propertyfile)
        warns == res.logs /\ LogTest(res.key, logged)
    IN /\ r \notin DOMAIN runs
       /\ runs' = (r :> WithExpectedResult(
                          NewRun(kind.identifier, kind.sourcefiles, propertyfile,
                                 columns), expected)) @@ runs
       /\ logged' = IF warns THEN LogAdd(res.key, logged) ELSE logged
       /\ warnings' = IF warns THEN Warned(warnings, res.key) ELSE warnings
       /\ UNCHANGED <<rlimits, columns, lastCall, wpc, wkey>>
       /\ UNCHANGED <<expandVars, selectVars, taskVars, benchVars>>

\* Run.set_result on Run r with the execution result values; verdict is what
\* tool.determine_result returns (it is asked only when there is an exit
\* code) and output the content of the log file.
SetResult(r, values, verdict, output) ==
    LET termination_reason == Get(values, "terminationreason")
        new == set_result(runs[r], values, {}, verdict, output, rlimits)
    IN /\ r \in DOMAIN runs
       /\ runs' = RunsAfterSetResult(runs, r, new)
       /\ lastCall' = [run |-> r,
                       exitcode |-> ExitcodeOf(values),
                       termination_reason |-> termination_reason,
                       isTimeout |-> IsTimeout(termination_reason, new.values, rlimits),
                       verdict |-> verdict]
       /\ UNCHANGED <<rlimits, columns>>
       /\ UNCHANGED <<logVars, expandVars, selectVars, taskVars, benchVars>>

\* The verdicts the adapter can give for values: none without an exit code.
VerdictsFor(values) == IF "exitcode" \in DOMAIN values THEN Verdicts ELSE {None}

\* -- Spec: one Run is constructed and classified once, over all raw outcomes.
CreateFirstRun ==
    \E kind \in RunKinds, propertyfile \in {None, "ok.prp"} :
        Construct(1, kind, propertyfile, <<TRUE>>)

Classify ==
    /\ 1 \in DOMAIN runs
    /\ runs[1].calls = 0
    /\ \E values \in RawOutcomes :
        \E verdict \in VerdictsFor(values) :
            SetResult(1, values, verdict, "log")

Next == CreateFirstRun \/ Classify

Spec == Init /\ [][Next]_vars

\* -- SpecRuns: several Runs, each constructed once and then given results,
\* in any order.
CreateRun ==
    \E r \in RunIds, kind \in RunKinds :
        Construct(r, kind, "ok.prp", <<TRUE>>)

Complete ==
    \E r \in DOMAIN runs :
        /\ runs[r].calls < MaxCalls
        /\ \E values \in SmallOutcomes :
            \E verdict \in {IF values["exitcode"].signal = 0 THEN "TRUE"
                            ELSE RESULT_UNKNOWN} :
                SetResult(r, values, verdict, "log")

NextRuns == CreateRun \/ Complete

InitRuns == Init /\ rlimits = (TIMELIMIT :> 10)

SpecRuns == InitRuns /\ [][NextRuns]_vars

\* ------------------------------------------------- claims on the classifier
\* The latest set_result call and what it left in its Run.
Called == lastCall.run # 0
CalledStatus == runs[lastCall.run].status
CalledSignal == IF lastCall.exitcode = <<>> THEN 0 ELSE lastCall.exitcode[1].signal

\* The label of a declared termination reason, as the specification lists it.
ReasonLabel(reason) ==
    CASE reason = "memory" -> "OUT OF MEMORY"
      [] reason = "killed" -> "KILLED"
      [] reason = "failed" -> "FAILED"
      [] reason = "files-count" -> "FILES-COUNT LIMIT"
      [] reason = "files-size" -> "FILES-SIZE LIMIT"
      [] OTHER -> reason

\* The resource condition of the latest call: TIMEOUT, else the label of the
\* declared termination reason, else none.
CalledDeclared == lastCall.termination_reason \notin {None, ""}
CalledHasCondition == lastCall.isTimeout \/ CalledDeclared
CalledLabel ==
    IF lastCall.isTimeout THEN "TIMEOUT" ELSE ReasonLabel(lastCall.termination_reason)

\* The adapter's verdict after the signal refinement (None without exit code).
CalledVerdict == ToolStatus(lastCall.exitcode, lastCall.verdict)

SegfaultCase ==
    /\ Called
    /\ CalledSignal = 11
    /\ ~CalledHasCondition

\* C1 as stated: with signal 11, no termination reason and no timeout the
\* status is "SEGMENTATION FAULT" whatever the adapter returns.
C1_SegfaultWhateverVerdict ==
    SegfaultCase => CalledStatus = "SEGMENTATION FAULT"

\* C1 amended: with signal 11, no termination reason and no timeout the status
\* is "SEGMENTATION FAULT" when the adapter's verdict is in its unspecific
\* bucket, and the adapter's own verdict otherwise.
C1_SegfaultForUnspecificVerdict ==
    SegfaultCase =>
        CalledStatus = IF lastCall.verdict \in RESULT_LIST_OTHER
                       THEN "SEGMENTATION FAULT"
                       ELSE lastCall.verdict

C1_Witness ==
    /\ SegfaultCase
    /\ lastCall.verdict = RESULT_UNKNOWN
    /\ CalledStatus = "SEGMENTATION FAULT"

\* C2: a timeout gives a status based on "TIMEOUT"; otherwise a declared
\* termination reason gives a status based on its label; otherwise the status
\* is the adapter's (signal-refined) verdict. "Based on L" is L itself or
\* "L (verdict)".
C2_StatusPrecedence ==
    Called =>
        IF CalledHasCondition
        THEN CalledStatus \in {CalledLabel, Format(CalledLabel, CalledVerdict)}
        ELSE CalledStatus = CalledVerdict

\* A timeout that wins over a declared reason, which would win over a verdict.
C2_Witness ==
    /\ Called
    /\ lastCall.isTimeout
    /\ lastCall.termination_reason = "memory"
    /\ lastCall.verdict = "TRUE"
    /\ CalledStatus = "TIMEOUT (TRUE)"

\* C3: with a resource condition L and an existing adapter verdict V, the
\* status is "L (V)" iff V is not unspecific, V # L, V # "KILLED" and
\* V # "KILLED BY SIGNAL 9"; it is L in every other case with a resource
\* condition.
C3_Reconciliation ==
    (Called /\ CalledHasCondition) =>
        IF /\ CalledVerdict \notin {None, ""}
           /\ CalledVerdict \notin RESULT_LIST_OTHER
           /\ CalledVerdict # CalledLabel
           /\ CalledVerdict \notin {"KILLED", "KILLED BY SIGNAL 9"}
        THEN CalledStatus = Format(CalledLabel, CalledVerdict)
        ELSE CalledStatus = CalledLabel

C3_Witness ==
    /\ Called
    /\ ~lastCall.isTimeout
    /\ lastCall.termination_reason = "memory"
    /\ lastCall.verdict = "FALSE(reach)"
    /\ CalledStatus = "OUT OF MEMORY (FALSE(reach))"

\* C4 as stated: the status set_result leaves is always a string, also when
\* there is no exit code, no timeout and no termination reason.
C4_StatusIsString ==
    \A r \in DOMAIN runs : runs[r].status # None

\* -------------------------------------------- claims on the result fields
\* The result fields of a Run: status, category, values, the column values.
ResultFields(run) ==
    <<run.status, run.category, run.values,
      [i \in DOMAIN run.columns |-> run.columns[i].value]>>

\* C5 as stated: once set_result has written the result fields of a Run, no
\* later step (a further set_result call on that Run included) changes them.
C5_WriteOnce ==
    [][\A r \in DOMAIN runs :
          runs[r].calls > 0 => ResultFields(runs'[r]) = ResultFields(runs[r])]_vars

\* C5 amended: the result fields of a Run hold the dummy values of
\* Run.__init__ until set_result is called on that Run, and they change only
\* in a set_result call on that Run; every such call writes them again.
C5_WrittenOnlyBySetResult ==
    /\ [](\A r \in DOMAIN runs :
            runs[r].calls = 0 =>
                ResultFields(runs[r]) =
                    <<"", CATEGORY_UNKNOWN, EmptyDict,
                      [i \in DOMAIN runs[r].columns |-> ""]>>)
    /\ [][\A r \in DOMAIN runs :
            ResultFields(runs'[r]) # ResultFields(runs[r])
                => runs'[r].calls = runs[r].calls + 1]_vars

\* A Run classified twice beside a Run not yet classified.
C5_Witness ==
    \E r, q \in DOMAIN runs :
        /\ runs[r].calls = 2
        /\ runs[r].status = "OUT OF MEMORY"
        /\ runs[q].calls = 0
        /\ runs[q].status = ""

\* ----------------------------- SpecLog: Runs constructed by several workers
\* Worker w constructs Run w. Run.__init__ is split where another thread can
\* run in between: before the test of log_property_file_once, and between the
\* test and the insertion (no lock is held around lines 894-896).
BeginInit(w) ==
    /\ wpc[w] = "idle"
    /\ w \notin DOMAIN runs
    /\ \E propertyfile \in PropertyFileDecls :
        /\ wkey' = [wkey EXCEPT ![w] = propertyfile]
        /\ wpc' = [wpc EXCEPT ![w] =
                      IF ResolvePropertyFile(propertyfile).logs THEN "test"
                      ELSE "finish"]
    /\ UNCHANGED <<logged, warnings>>
    /\ UNCHANGED <<classifyVars, expandVars, selectVars, taskVars, benchVars>>

\* if not self.propertyfile in _logged_missing_property_files:
LogTestStep(w) ==
    /\ wpc[w] = "test"
    /\ wpc' = [wpc EXCEPT ![w] = IF LogTest(wkey[w], logged) THEN "add" ELSE "finish"]
    /\ UNCHANGED <<logged, warnings, wkey>>
    /\ UNCHANGED <<classifyVars, expandVars, selectVars, taskVars, benchVars>>

\* _logged_missing_property_files.add(self.propertyfile); logging.warning(msg)
LogAddStep(w) ==
    /\ wpc[w] = "add"
    /\ logged' = LogAdd(wkey[w], logged)
    /\ warnings' = Warned(warnings, wkey[w])
    /\ wpc' = [wpc EXCEPT ![w] = "finish"]
    /\ UNCHANGED wkey
    /\ UNCHANGED <<classifyVars, expandVars, selectVars, taskVars, benchVars>>

\* The rest of Run.__init__.
FinishInit(w) ==
    /\ wpc[w] = "finish"
    /\ runs' = (w :> NewRun("a.c", <<"a.c">>, wkey[w], columns)) @@ runs
    /\ wpc' = [wpc EXCEPT ![w] = "done"]
    /\ UNCHANGED <<rlimits, columns, lastCall, logged, warnings, wkey>>
    /\ UNCHANGED <<expandVars, selectVars, taskVars, benchVars>>

NextLog ==
    \E w \in RunIds : BeginInit(w) \/ LogTestStep(w) \/ LogAddStep(w) \/ FinishInit(w)

SpecLog == Init /\ [][NextLog]_vars

\* C6 as stated: for each property-file key at most one warning is logged,
\* for every interleaving of the workers that construct Runs with that key.
C6_AtMostOneWarningPerKey ==
    \A key \in DOMAIN warnings : warnings[key] <= 1

\* C6, the part on the set: _logged_missing_property_files only grows.
C6_LoggedOnlyGrows == [][logged \subseteq logged']_vars

\* ------------------------------------ RunSet.get_task_def_files_from_xml
MaxTags == 3        \* child tags of the <tasks> tag

BaseDir == "."

\* The files below the base directory, in the order the file system lists
\* them (the glob primitive gives no order), and in alphabetical order.
Listing ==
    <<"b.txt", "inc.set", "b.c", "sets/sub.set", "a.c", "exc.set", "sets/c.c",
      "code.set">>
Alphabetical ==
    <<"a.c", "b.c", "b.txt", "code.set", "exc.set", "inc.set", "sets/c.c",
      "sets/sub.set">>

\* The paths a pattern matches relative to base_dir.
MatchSet(pattern, base_dir) ==
    IF base_dir = BaseDir
    THEN CASE pattern = "*.c" -> {"a.c", "b.c"}
           [] pattern = "b.*" -> {"b.c", "b.txt"}
           [] pattern \in {"a.c", "b.c", "inc.set", "code.set", "exc.set",
                           "sets/sub.set"} -> {pattern}
           [] OTHER -> {}
    ELSE IF base_dir = "sets" /\ pattern = "c.c" THEN {"sets/c.c"}
    ELSE {}

\* util.expand_filename_pattern(pattern, base_dir): the matches, unsorted.
util_expand_filename_pattern(pattern, base_dir) ==
    SelectSeq(Listing, LAMBDA path : path \in MatchSet(pattern, base_dir))

Range(seq) == {seq[i] : i \in DOMAIN seq}

\* list.sort() of a list of paths without duplicates.
Sorted(fileList) == SelectSeq(Alphabetical, LAMBDA path : path \in Range(fileList))

\* os.path.dirname(file)
Dirname(file) == IF file \in {"sets/sub.set", "sets/c.c"} THEN "sets" ELSE BaseDir

\* The lines of the list files, as iterating over the open file gives them;
\* the other files hold C code or text.
FileLines(file) ==
    CASE file = "inc.set" -> <<"# tasks\n", "a.c\n", "\n", " b.*\n">>
      [] file = "code.set" -> <<"b.c\n", "{ \"files\": [] }\n">>
      [] file = "exc.set" -> <<"// not these\n", "b.c\n">>
      [] file = "sets/sub.set" -> <<"c.c\n">>
      [] OTHER -> <<"int main() {\n", "}\n">>

\* line.strip()
Strip(line) ==
    CASE line = "# tasks\n" -> "# tasks"
      [] line = "a.c\n" -> "a.c"
      [] line = "\n" -> ""
      [] line = " b.*\n" -> "b.*"
      [] line = "b.c\n" -> "b.c"
      [] line = "{ \"files\": [] }\n" -> "{ \"files\": [] }"
      [] line = "// not these\n" -> "// not these"
      [] line = "c.c\n" -> "c.c"
      [] line = "int main() {\n" -> "int main() {"
      [] line = "}\n" -> "}"

\* util.is_comment(line): empty, or starting with "#" or "//".
is_comment(line) == line \in {"", "# tasks", "// not these"}

\* util.is_code(file): the file holds a line that starts with "{".
is_code(file) ==
    \E i \in DOMAIN FileLines(file) : FileLines(file)[i] = "{ \"files\": [] }\n"

\* util.remove_all(list, elemToRemove)
remove_all(list, elemToRemove) == SelectSeq(list, LAMBDA elem : elem # elemToRemove)

\* expand_filename_pattern without fileList.sort().
expand_filename_pattern_Unsorted(pattern, base_dir) ==
    util_expand_filename_pattern(pattern, base_dir)

\* RunSet.expand_filename_pattern without its logging: the sorted matches.
expand_filename_pattern(pattern, base_dir) ==
    Sorted(util_expand_filename_pattern(pattern, base_dir))

\* sourcefilesTag.findall(kind): the child tags of that kind, in document order.
FindAll(sourcefilesTag, kind) == SelectSeq(sourcefilesTag, LAMBDA t : t.tag = kind)

\* The progress of get_task_def_files_from_xml: whether it has ended, the
\* list built so far, the expand_filename_pattern calls made so far
\* (history), whether it ended in sys.exit().
Started == [done |-> FALSE, sourcefiles |-> <<>>, calls |-> <<>>, exited |-> FALSE]

Called_(s, kind, pattern, file) ==
    [s EXCEPT !.calls = Append(@, [kind |-> kind, pattern |-> pattern, file |-> file])]

\* sourcefiles += self.expand_filename_pattern(pattern, base_dir)
Include(s, kind, pattern, base_dir, file) ==
    [Called_(s, kind, pattern, file) EXCEPT
        !.sourcefiles = @ \o expand_filename_pattern(pattern, base_dir)]

\* ExcludeFiles that removes only the first excluded file.
ExcludeFiles_FirstOnly(sourcefiles, excludedFilesList) ==
    IF excludedFilesList = <<>> THEN sourcefiles
    ELSE remove_all(sourcefiles, Head(excludedFilesList))

\* for excludedFile in excludedFilesList: sourcefiles = remove_all(...)
RECURSIVE ExcludeFiles(_, _)
ExcludeFiles(sourcefiles, excludedFilesList) ==
    IF excludedFilesList = <<>> THEN sourcefiles
    ELSE ExcludeFiles(remove_all(sourcefiles, Head(excludedFilesList)),
                      Tail(excludedFilesList))

Exclude(s, kind, pattern, base_dir, file) ==
    [Called_(s, kind, pattern, file) EXCEPT
        !.sourcefiles = ExcludeFiles(@, expand_filename_pattern(pattern, base_dir))]

\* The loop over <include> tags.
RECURSIVE IncludeTags(_, _)
IncludeTags(s, tags) ==
    IF tags = <<>> THEN s
    ELSE IncludeTags(Include(s, "include", Head(tags).text, BaseDir, ""), Tail(tags))

\* The loop over the lines of an includes-file.
RECURSIVE IncludeLines(_, _, _)
IncludeLines(s, lines, file) ==
    IF lines = <<>> THEN s
    ELSE IncludeLines(
            IF is_comment(Strip(Head(lines))) THEN s
            ELSE Include(s, "line", Strip(Head(lines)), Dirname(file), file),
            Tail(lines), file)

\* IncludeListFiles that tests is_code only after the file has been read.
RECURSIVE IncludeListFiles_ReadFirst(_, _)
IncludeListFiles_ReadFirst(s, files) ==
    IF files = <<>> \/ s.exited THEN s
    ELSE IncludeListFiles_ReadFirst(
            [IncludeLines(s, FileLines(Head(files)), Head(files)) EXCEPT
                !.exited = is_code(Head(files))],
            Tail(files))

\* The loop over the files an <includesfile> pattern expands to: a file that
\* is code ends the program, any other file is read.
RECURSIVE IncludeListFiles(_, _)
IncludeListFiles(s, files) ==
    IF files = <<>> \/ s.exited THEN s
    ELSE IF is_code(Head(files)) THEN [s EXCEPT !.exited = TRUE]
    ELSE IncludeListFiles(IncludeLines(s, FileLines(Head(files)), Head(files)),
                          Tail(files))

\* The loop over <includesfile> tags.
RECURSIVE IncludesFileTags(_, _)
IncludesFileTags(s, tags) ==
    IF tags = <<>> \/ s.exited THEN s
    ELSE IncludesFileTags(
            IncludeListFiles(Called_(s, "includesfile", Head(tags).text, ""),
                             expand_filename_pattern(Head(tags).text, BaseDir)),
            Tail(tags))

\* The loop over <exclude> tags.
RECURSIVE ExcludeTags(_, _)
ExcludeTags(s, tags) ==
    IF tags = <<>> \/ s.exited THEN s
    ELSE ExcludeTags(Exclude(s, "exclude", Head(tags).text, BaseDir, ""), Tail(tags))

\* The loop over the lines of an excludes-file.
RECURSIVE ExcludeLines(_, _, _)
ExcludeLines(s, lines, file) ==
    IF lines = <<>> THEN s
    ELSE ExcludeLines(
            IF is_comment(Strip(Head(lines))) THEN s
            ELSE Exclude(s, "excludeline", Strip(Head(lines)), Dirname(file), file),
            Tail(lines), file)

\* The loop over the files an <excludesfile> pattern expands to.
RECURSIVE ExcludeListFiles(_, _)
ExcludeListFiles(s, files) ==
    IF files = <<>> THEN s
    ELSE ExcludeListFiles(ExcludeLines(s, FileLines(Head(files)), Head(files)),
                          Tail(files))

\* The loop over <excludesfile> tags.
RECURSIVE ExcludesFileTags(_, _)
ExcludesFileTags(s, tags) ==
    IF tags = <<>> \/ s.exited THEN s
    ELSE ExcludesFileTags(
            ExcludeListFiles(Called_(s, "excludesfile", Head(tags).text, ""),
                             expand_filename_pattern(Head(tags).text, BaseDir)),
            Tail(tags))

\* RunSet.get_task_def_files_from_xml(sourcefilesTag, base_dir)
get_task_def_files_from_xml(sourcefilesTag) ==
    ExcludesFileTags(
        ExcludeTags(
            IncludesFileTags(
                IncludeTags(Started, FindAll(sourcefilesTag, "include")),
                FindAll(sourcefilesTag, "includesfile")),
            FindAll(sourcefilesTag, "exclude")),
        FindAll(sourcefilesTag, "excludesfile"))

\* The child tags a <tasks> tag of the model can hold.
ChildTags ==
    {[tag |-> "include", text |-> t] : t \in {"*.c", "a.c", "b.*", "*.h"}}
      \cup {[tag |-> "includesfile", text |-> t] :
               t \in {"inc.set", "code.set", "sets/sub.set"}}
      \cup {[tag |-> "exclude", text |-> t] : t \in {"b.c", "b.*"}}
      \cup {[tag |-> "excludesfile", text |-> t] : t \in {"exc.set", "code.set"}}

SeqsUpTo(S, n) == UNION {[1..k -> S] : k \in 0..n}

InitExpand ==
    /\ Init
    /\ rlimits = EmptyDict
    /\ columns = <<>>

\* A <tasks> tag is read from the benchmark definition.
ReadTasksTag ==
    /\ block = <<>>
    /\ expansion = <<>>
    /\ \E tags \in SeqsUpTo(ChildTags, MaxTags) \ {<<>>} :
        /\ block' = tags
        /\ expansion' = Started
    /\ UNCHANGED <<classifyVars, logVars, selectVars, taskVars, benchVars>>

\* get_task_def_files_from_xml runs on it.
ExpandTasksTag ==
    /\ expansion # <<>>
    /\ ~expansion.done
    /\ expansion' = [get_task_def_files_from_xml(block) EXCEPT !.done = TRUE]
    /\ UNCHANGED block
    /\ UNCHANGED <<classifyVars, logVars, selectVars, taskVars, benchVars>>

NextExpand == ReadTasksTag \/ ExpandTasksTag

SpecExpand == InitExpand /\ [][NextExpand]_vars

\* -------------------------------------------- claims on the task expansion
Returned == expansion # <<>> /\ expansion.done /\ ~expansion.exited
Exited == expansion # <<>> /\ expansion.done /\ expansion.exited

Occurrences(path, list) == Cardinality({i \in DOMAIN list : list[i] = path})

TagsOf(kinds) == {i \in DOMAIN block : block[i].tag \in kinds}

\* The list files a list-reference tag names.
ListFilesOf(i) == MatchSet(block[i].text, BaseDir)

\* The non-comment lines of a list file, as positions in the file.
PatternLines(file) ==
    {k \in DOMAIN FileLines(file) : ~is_comment(Strip(FileLines(file)[k]))}

LineMatches(file, k) == MatchSet(Strip(FileLines(file)[k]), Dirname(file))

\* The non-comment lines <<tag, file, line>> of the list files that the tags
\* of a kind name.
ListLines(kind) ==
    UNION {UNION {{<<i, f, k>> : k \in PatternLines(f)} : f \in ListFilesOf(i)} :
              i \in TagsOf({kind})}

\* How many include patterns and includes-file lines of the block expand to path.
InclusionCount(path) ==
    Cardinality({i \in TagsOf({"include"}) : path \in MatchSet(block[i].text, BaseDir)})
      + Cardinality({t \in ListLines("includesfile") : path \in LineMatches(t[2], t[3])})

\* The paths an exclude pattern or an excludes-file line of the block expands to.
Excluded ==
    UNION {MatchSet(block[i].text, BaseDir) : i \in TagsOf({"exclude"})}
      \cup UNION {LineMatches(t[2], t[3]) : t \in ListLines("excludesfile")}

StarDotC == <<[tag |-> "include", text |-> "*.c"]>>

InclusionsOnly == SelectSeq(block, LAMBDA t : t.tag \in {"include", "includesfile"})

\* C8: no path that an exclude pattern or an excludes-file line expands to is
\* in the returned list, wherever the exclusion stands in the block; the other
\* paths are kept with their multiplicity and order.
C8_ExcludedNowhere ==
    Returned =>
        /\ \A path \in Excluded : path \notin Range(expansion.sourcefiles)
        /\ expansion.sourcefiles =
              SelectSeq(get_task_def_files_from_xml(InclusionsOnly).sourcefiles,
                        LAMBDA path : path \notin Excluded)

\* b.c is included twice, the second time after the exclude tag.
C8_Witness ==
    /\ Returned
    /\ block = <<[tag |-> "include", text |-> "*.c"],
                 [tag |-> "exclude", text |-> "b.c"],
                 [tag |-> "include", text |-> "b.*"]>>
    /\ expansion.sourcefiles = <<"a.c", "b.txt">>

\* Whether a tag of one of these kinds names a list file that holds code.
NamesCode(kinds) ==
    \E i \in TagsOf(kinds) : \E f \in ListFilesOf(i) : is_code(f)

\* The list files of the <includesfile> tags, in the order they are read.
IncludedListFiles ==
    LET tags == FindAll(block, "includesfile")
        F[n \in 0..Len(tags)] ==
            IF n = 0 THEN <<>>
            ELSE F[n - 1] \o SelectSeq(Alphabetical,
                                 LAMBDA f : f \in MatchSet(tags[n].text, BaseDir))
    IN F[Len(tags)]

\* The list files read before the first one that holds code.
ReadBeforeCode ==
    LET files == IncludedListFiles
    IN {files[i] : i \in {j \in DOMAIN files :
                             \A k \in 1..j : ~is_code(files[k])}}

CallsOf(kinds) == {i \in DOMAIN expansion.calls : expansion.calls[i].kind \in kinds}

\* C9 as stated: a list-reference file that holds code aborts the expansion
\* before any include pattern or list-file line has been expanded, and this
\* holds for every list-reference file of the block.
C9_RejectedBeforeAnyExpansion ==
    (expansion # <<>> /\ expansion.done) =>
        /\ expansion.exited => CallsOf({"include", "line"}) = {}
        /\ NamesCode({"includesfile", "excludesfile"}) => expansion.exited

\* C9 amended: the expansion aborts exactly when an includes-file holds code
\* (an excludes-file is not checked); at the abort no line of that file or of
\* a later includes-file and no exclusion has been expanded, while every
\* include pattern and the lines of the includes-files read before it have.
C9_RejectedBeforeItsLines ==
    (expansion # <<>> /\ expansion.done) =>
        /\ expansion.exited <=> NamesCode({"includesfile"})
        /\ expansion.exited =>
              /\ CallsOf({"exclude", "excludesfile", "excludeline"}) = {}
              /\ {expansion.calls[i].file : i \in CallsOf({"line"})}
                    = {f \in ReadBeforeCode : PatternLines(f) # {}}
              /\ Cardinality(CallsOf({"include"}))
                    = Cardinality(TagsOf({"include"}))

C9_Witness ==
    /\ Exited
    /\ block = <<[tag |-> "include", text |-> "a.c"],
                 [tag |-> "includesfile", text |-> "inc.set"],
                 [tag |-> "includesfile", text |-> "code.set"]>>
    /\ expansion.sourcefiles = <<"a.c", "a.c", "b.c", "b.txt">>

\* -------------------------------------------- RunSet.extract_runs_from_xml
MaxBlocks == 2      \* <tasks> tags of a run set
MaxSelected == 2    \* patterns in config.selected_sourcefile_sets

\* fnmatch.fnmatch(word, wildcard) for the names and patterns of the model.
fnmatch(word, wildcard) ==
    \/ wildcard = "*"
    \/ wildcard = word
    \/ wildcard = "m*" /\ word \in {"main", "more"}

\* util.wildcard_match(word, wildcard): no word matches nothing.
wildcard_match(word, wildcard) == Truthy(word) /\ fnmatch(word, wildcard)

\* The declared names of <tasks> tags (None: no name attribute) and the
\* patterns that can be selected.
BlockNames == {None, "main", "more", "1"}
SelectionPatterns == {"*", "0", "1", "main", "m*", "other"}

\* matchName = sourcefileSetName or str(index)
MatchNameOf(sourcefileSetName, index) ==
    IF Truthy(sourcefileSetName) THEN sourcefileSetName ELSE ToString(index)

\* The test that makes the loop skip a <tasks> tag.
Skipped(sourcefileSetName, index, selected_sourcefile_sets) ==
    /\ selected_sourcefile_sets # <<>>
    /\ ~\E k \in DOMAIN selected_sourcefile_sets :
          wildcard_match(MatchNameOf(sourcefileSetName, index),
                         selected_sourcefile_sets[k])

\* SourcefileSet.__init__ (the runs are left out)
SourcefileSet(name, index) ==
    [real_name |-> name,
     name |-> IF Truthy(name) THEN name ELSE ToString(index),
     index |-> index]

\* The name the loop over the selected patterns compares with a pattern.
WarningName(sourcefile_set) == sourcefile_set.real_name

\* The blocks extract_runs_from_xml builds: index counts from 0.
RECURSIVE BuildBlocks(_, _, _)
BuildBlocks(sourcefilesTagList, index, selected_sourcefile_sets) ==
    IF index >= Len(sourcefilesTagList) THEN <<>>
    ELSE (IF Skipped(sourcefilesTagList[index + 1].name, index,
                     selected_sourcefile_sets)
          THEN <<>>
          ELSE <<SourcefileSet(sourcefilesTagList[index + 1].name, index)>>)
         \o BuildBlocks(sourcefilesTagList, index + 1, selected_sourcefile_sets)

\* The patterns for which 'The selected tasks "%s" are not present' is logged.
SelectionWarnings(blocks, selected_sourcefile_sets) ==
    SelectSeq(selected_sourcefile_sets,
              LAMBDA sel : ~\E i \in DOMAIN blocks :
                               wildcard_match(WarningName(blocks[i]), sel))

\* RunSet.extract_runs_from_xml: the selection of the blocks and the warnings.
extract_runs_from_xml(sourcefilesTagList, selected_sourcefile_sets) ==
    LET blocks == BuildBlocks(sourcefilesTagList, 0, selected_sourcefile_sets)
    IN [done |-> TRUE,
        blocks |-> blocks,
        warnings |-> SelectionWarnings(blocks, selected_sourcefile_sets)]

\* Lists of patterns without repetition.
Selections ==
    {sel \in SeqsUpTo(SelectionPatterns, MaxSelected) :
        \A i, j \in DOMAIN sel : i # j => sel[i] # sel[j]}

TagLists == SeqsUpTo({[name |-> n] : n \in BlockNames}, MaxBlocks)

\* The benchmark definition and the command line are read.
ReadDefinition ==
    /\ extraction = <<>>
    /\ \E tags \in TagLists, sel \in Selections :
        /\ tagList' = tags
        /\ selected' = sel
    /\ extraction' = [done |-> FALSE, blocks |-> <<>>, warnings |-> <<>>]
    /\ UNCHANGED <<classifyVars, logVars, expandVars, taskVars, benchVars>>

\* extract_runs_from_xml runs on them.
ExtractRuns ==
    /\ extraction # <<>>
    /\ ~extraction.done
    /\ extraction' = extract_runs_from_xml(tagList, selected)
    /\ UNCHANGED <<tagList, selected>>
    /\ UNCHANGED <<classifyVars, logVars, expandVars, taskVars, benchVars>>

NextSelect == ReadDefinition \/ ExtractRuns

SpecSelect == InitExpand /\ [][NextSelect]_vars

\* ------------------------------------------- claims on the block selection
Extracted == extraction # <<>> /\ extraction.done

\* The name a block is selected by: its declared name, else its index.
SelectionName(i) ==
    IF tagList[i].name \in {None, ""} THEN ToString(i - 1) ELSE tagList[i].name

\* Whether a pattern selects the i-th <tasks> tag.
Selects(pattern, i) == fnmatch(SelectionName(i), pattern)

IsExpanded(i) ==
    \E b \in DOMAIN extraction.blocks : extraction.blocks[b].index = i - 1

\* C10 as stated: with an allow-list, a block is expanded iff a pattern matches
\* its name (its index when it has no name), and the 'selected tasks not
\* present' warning is logged for a pattern, once, iff the pattern selected no
\* block.
C10_WarningIffNothingSelected ==
    (Extracted /\ selected # <<>>) =>
        /\ \A i \in DOMAIN tagList :
              IsExpanded(i) <=> \E k \in DOMAIN selected : Selects(selected[k], i)
        /\ \A k \in DOMAIN selected :
              Occurrences(selected[k], extraction.warnings) =
                  IF \E i \in DOMAIN tagList : Selects(selected[k], i) THEN 0 ELSE 1

\* C10, the part on the blocks: with an allow-list, a block is expanded iff a
\* pattern matches its name (its index when it has no name).
C10_ExpandedIffSelected ==
    (Extracted /\ selected # <<>>) =>
        \A i \in DOMAIN tagList :
            IsExpanded(i) <=> \E k \in DOMAIN selected : Selects(selected[k], i)

\* ------------------------------ RunSet.create_run_from_task_definition
MaxTasks == 3       \* task identifiers of a <tasks> tag

\* load_task_definition_file(task_def_file): the property entries of the
\* task-definition files of the model; expected_verdict <<>> is an absent key.
Entry_(property_file, expected_verdict) ==
    [property_file |-> property_file, expected_verdict |-> expected_verdict]

load_task_definition_file(task_def_file) ==
    CASE task_def_file = "match.yml" ->
            [properties |-> <<Entry_("other.prp", <<FALSE>>), Entry_("ok.prp", <<TRUE>>)>>]
      [] task_def_file = "twice.yml" ->
            [properties |-> <<Entry_("ok.prp", <<TRUE>>), Entry_("ok.prp", <<FALSE>>)>>]
      [] task_def_file = "alias.yml" ->
            [properties |-> <<Entry_("link.prp", <<FALSE>>), Entry_("ok.prp", <<>>)>>]
      [] task_def_file = "other.yml" ->
            [properties |-> <<Entry_("other.prp", <<TRUE>>)>>]
      [] task_def_file = "none.yml" -> [properties |-> <<>>]
      [] task_def_file = "bad.yml" ->
            [properties |-> <<Entry_("ok.prp", <<TRUE>>), Entry_("*.prp", <<TRUE>>)>>]
      [] OTHER -> [properties |-> <<>>]

\* util.expand_filename_pattern(prop_dict["property_file"], dirname) in the
\* directory of the task-definition files: link.prp is a link to ok.prp.
ExpandPropertyPattern(pattern) ==
    CASE pattern \in {"ok.prp", "other.prp", "link.prp"} -> <<pattern>>
      [] pattern = "*.prp" -> <<"link.prp", "ok.prp", "other.prp">>
      [] OTHER -> <<>>

\* os.path.samefile
samefile(a, b) == {a, b} \subseteq {"ok.prp", "link.prp"}

\* The test of lines 766-768: the entry refers to the run's property file.
MatchesProperty(filename, expanded) ==
    filename = expanded[1] \/ samefile(filename, expanded[1])

\* run.expected_results[prop.filename] = ExpectedResult(...): a dict store.
StoreExpectedResult(expected_results, filename, expected_result) ==
    (filename :> [result |-> expected_result])
        @@ [k \in DOMAIN expected_results \ {filename} |-> expected_results[k]]

\* The loop over task_def.get("properties", []) from entry i on: the dict it
\* leaves in run.expected_results, or the exception it raises.
RECURSIVE MatchProperties(_, _, _, _)
MatchProperties(properties, i, filename, expected_results) ==
    IF i > Len(properties)
    THEN [expected_results |-> expected_results, raised |-> None]
    ELSE LET expanded == ExpandPropertyPattern(properties[i].property_file)
         IN IF Len(expanded) # 1
            THEN [expected_results |-> expected_results,
                  raised |-> "does not refer to exactly one file"]
            ELSE MatchProperties(properties, i + 1, filename,
                    IF MatchesProperty(filename, expanded)
                    THEN StoreExpectedResult(expected_results, filename,
                                             properties[i].expected_verdict)
                    ELSE expected_results)

\* len(run.expected_results): the number of keys of the dict.
NumExpectedResults(expected_results) == Cardinality(DOMAIN expected_results)

\* RunSet.create_run_from_task_definition: the Run returned (<<>> for None)
\* or the exception raised.
create_run_from_task_definition(task_def_file, propertyfile) ==
    LET task_def == load_task_definition_file(task_def_file)
        run == NewRun(task_def_file, <<"input.c">>, propertyfile, <<>>)
        matched == MatchProperties(task_def.properties, 1, run.propertyfile,
                                   EmptyDict)
        filled == [run EXCEPT !.properties = <<run.propertyfile>>,
                              !.expected_results = matched.expected_results]
        n == NumExpectedResults(matched.expected_results)
    IN IF ~Truthy(run.propertyfile) THEN [run |-> <<run>>, raised |-> None]
       ELSE IF matched.raised # None THEN [run |-> <<>>, raised |-> matched.raised]
       ELSE IF n = 0 THEN [run |-> <<>>, raised |-> None]
       ELSE IF n > 1 THEN [run |-> <<>>, raised |-> "specified multiple times"]
       ELSE [run |-> <<filled>>, raised |-> None]

\* RunSet.create_run_for_input_file, without <append> tags and without an
\* expected result in the file name.
create_run_for_input_file(input_file, property_file) ==
    LET run == NewRun(input_file, <<input_file>>, property_file, <<>>)
    IN IF ~Truthy(run.propertyfile) THEN [run |-> <<run>>, raised |-> None]
       ELSE [run |-> <<[run EXCEPT !.properties = <<run.propertyfile>>]>>,
             raised |-> None]

\* The task-definition files of the model.
TaskDefinitionFiles ==
    {"match.yml", "twice.yml", "alias.yml", "other.yml", "none.yml", "bad.yml"}

\* identifier.endswith(".yml") for the identifiers of the model
IsTaskDefinition(identifier) == identifier \in TaskDefinitionFiles

\* AppendRun with a dropped task ending the block.
AppendRun_EndBlockAtDrop(made, later_runs) ==
    IF made.run = <<>> THEN <<>> ELSE made.run \o later_runs

\* if run: currentRuns.append(run), followed by the runs of the later
\* identifiers.
AppendRun(made, later_runs) == made.run \o later_runs

\* The loop of extract_runs_from_xml over task_def_files from position i on,
\* with log_property_file_once of every Run.__init__ it calls: currentRuns,
\* the exception that ended it, the set of logged keys and the warnings.
RECURSIVE CurrentRuns(_, _, _, _, _)
CurrentRuns(task_def_files, i, propertyfile, logged_files, count) ==
    IF i > Len(task_def_files)
    THEN [runs |-> <<>>, raised |-> None, logged |-> logged_files,
          warnings |-> count]
    ELSE LET identifier == task_def_files[i]
             made == IF IsTaskDefinition(identifier)
                     THEN create_run_from_task_definition(identifier, propertyfile)
                     ELSE create_run_for_input_file(identifier, propertyfile)
             res == ResolvePropertyFile(propertyfile)
             warns == res.logs /\ LogTest(res.key, logged_files)
             logged1 == IF warns THEN LogAdd(res.key, logged_files) ELSE logged_files
             count1 == IF warns THEN Warned(count, res.key) ELSE count
             later == CurrentRuns(task_def_files, i + 1, propertyfile, logged1, count1)
         IN IF made.raised # None
            THEN [runs |-> <<>>, raised |-> made.raised, logged |-> logged1,
                  warnings |-> count1]
            ELSE [later EXCEPT !.runs = AppendRun(made, later.runs)]

\* The identifiers get_task_def_files_from_xml can return for a <tasks> tag
\* of task-definition files and an input file.
TaskIdentifiers == TaskDefinitionFiles \cup {"plain.c"}

\* A <tasks> tag is read: its task identifiers and its property file.
ReadTasks ==
    /\ taskBlock = <<>>
    /\ \E ids \in SeqsUpTo(TaskIdentifiers, MaxTasks) \ {<<>>},
          propertyfile \in {None, "ok.prp", "missing.prp"} :
        taskBlock' = [task_def_files |-> ids, propertyfile |-> propertyfile]
    /\ taskRuns' = [done |-> FALSE, runs |-> <<>>, raised |-> None]
    /\ UNCHANGED <<classifyVars, logVars, expandVars, selectVars, benchVars>>

\* The loop of extract_runs_from_xml (lines 534-553) runs on it.
CreateRuns ==
    /\ taskBlock # <<>>
    /\ ~taskRuns.done
    /\ LET out == CurrentRuns(taskBlock.task_def_files, 1,
                              taskBlock.propertyfile, logged, warnings)
       IN /\ taskRuns' = [done |-> TRUE, runs |-> out.runs, raised |-> out.raised]
          /\ logged' = out.logged
          /\ warnings' = out.warnings
    /\ UNCHANGED <<taskBlock, wpc, wkey>>
    /\ UNCHANGED <<classifyVars, expandVars, selectVars, benchVars>>

NextTasks == ReadTasks \/ CreateRuns

SpecTasks == InitExpand /\ [][NextTasks]_vars

\* ------------------------------------------- claims on task definitions
TasksDone == taskBlock # <<>> /\ taskRuns.done

\* The property file the Runs of the block resolve to (None: none).
ResolvedPropertyFile == ResolvePropertyFile(taskBlock.propertyfile).propertyfile

\* The property entries of a task-definition file that refer to file.
MatchingEntries(task_def_file, file) ==
    LET properties == load_task_definition_file(task_def_file).properties
    IN {i \in DOMAIN properties :
           LET expanded == ExpandPropertyPattern(properties[i].property_file)
           IN /\ Len(expanded) = 1
              /\ (expanded[1] = file \/ samefile(expanded[1], file))}

\* An entry of the file does not refer to exactly one file.
Malformed(task_def_file) ==
    LET properties == load_task_definition_file(task_def_file).properties
    IN \E i \in DOMAIN properties :
           Len(ExpandPropertyPattern(properties[i].property_file)) # 1

IdentifiersOf(run_list) == [i \in DOMAIN run_list |-> run_list[i].identifier]

\* C11 as stated: no Run is returned for a task-definition file that lists two
\* or more property entries matching the run's resolved property file.
C11_NoRunFromSeveralMatches ==
    TasksDone =>
        \A i \in DOMAIN taskRuns.runs :
            IsTaskDefinition(taskRuns.runs[i].identifier)
                /\ Truthy(taskRuns.runs[i].propertyfile)
            => Cardinality(MatchingEntries(taskRuns.runs[i].identifier,
                                           taskRuns.runs[i].propertyfile)) <= 1

\* The fatal error 'specified multiple times' is never raised.
C11_NeverFatal ==
    TasksDone => taskRuns.raised # "specified multiple times"

\* A task-definition file with a resolved property file that none of its
\* entries matches.
Dropped(identifier) ==
    /\ IsTaskDefinition(identifier)
    /\ Truthy(ResolvedPropertyFile)
    /\ ~Malformed(identifier)
    /\ MatchingEntries(identifier, ResolvedPropertyFile) = {}

\* C12: a task-definition file none of whose entries matches the resolved
\* property file yields no Run and no error; the Runs of the block are those
\* of all other identifiers, in the original order, and an error comes only
\* from a malformed entry.
C12_DroppedTaskLeavesSiblings ==
    TasksDone =>
        /\ taskRuns.raised # None =>
              /\ Truthy(ResolvedPropertyFile)
              /\ \E i \in DOMAIN taskBlock.task_def_files :
                    Malformed(taskBlock.task_def_files[i])
        /\ taskRuns.raised = None =>
              IdentifiersOf(taskRuns.runs) =
                  SelectSeq(taskBlock.task_def_files, LAMBDA id : ~Dropped(id))

C12_Witness ==
    /\ TasksDone
    /\ taskBlock.propertyfile = "ok.prp"
    /\ taskBlock.task_def_files = <<"match.yml", "other.yml", "plain.c">>
    /\ taskRuns.raised = None
    /\ IdentifiersOf(taskRuns.runs) = <<"match.yml", "plain.c">>

\* ------------------------------------- Benchmark.__init__: the limits
MaxLimit == 3       \* largest number a limit is declared or overridden with

MEMLIMIT == "memlimit"
CORELIMIT == "cpuCores"
HARDTIMELIMIT == "hardtimelimit"
BYTE_FACTOR == 1000

\* The outcome of parsing a string: the number, or the ValueError.
Parsed(n) == [ok |-> TRUE, value |-> n]
ValueError == [ok |-> FALSE, value |-> 0]

\* int(value) for the strings of the model: decimal numbers.
int(value) ==
    IF \E n \in -MaxLimit..MaxLimit : ToString(n) = value
    THEN Parsed(CHOOSE n \in -MaxLimit..MaxLimit : ToString(n) = value)
    ELSE ValueError

\* util.parse_timespan_value: a number of seconds, or a number with a unit.
parse_timespan_value(value) ==
    IF int(value).ok THEN int(value)
    ELSE IF value = "1min" THEN Parsed(60)
    ELSE ValueError

\* util.parse_memory_value: a number with a unit, in bytes.
parse_memory_value(value) ==
    CASE value = "1kB" -> Parsed(BYTE_FACTOR)
      [] value = "2kB" -> Parsed(2 * BYTE_FACTOR)
      [] value = "0kB" -> Parsed(0)
      [] OTHER -> ValueError

\* parse_memory_limit: a number without a unit is refused.
parse_memory_limit(value) ==
    IF int(value).ok THEN ValueError ELSE parse_memory_value(value)

\* parse_fn(value) for the parse_fn that handle_limit_value is given.
Parse(parse_fn, value) ==
    CASE parse_fn = "util.parse_timespan_value" -> parse_timespan_value(value)
      [] parse_fn = "parse_memory_limit" -> parse_memory_limit(value)
      [] parse_fn = "int" -> int(value)

\* cmdline_value.strip()
StripSpaces(cmdline_value) == IF cmdline_value = " -1 " THEN "-1" ELSE cmdline_value

\* The test that makes handle_limit_value refuse a parsed value, with zero
\* accepted.
IsInvalidLimit_NegativeOnly(n) == n < 0

\* self.rlimits[key] <= 0
IsInvalidLimit(n) == n <= 0

\* The value handle_limit_value parses for a key: the one of the command line
\* unless that is None, None for the command-line value -1.
LimitValue(declared, key, cmdline_value) ==
    IF cmdline_value # None
    THEN (IF StripSpaces(cmdline_value) = "-1" THEN None ELSE cmdline_value)
    ELSE Get(declared, key)

\* handle_limit_value(name, key, cmdline_value, parse_fn) on the state b of
\* the Benchmark under construction: after sys.exit nothing more happens.
handle_limit_value(b, declared, key, cmdline_value, parse_fn) ==
    LET value == LimitValue(declared, key, cmdline_value)
    IN IF b.exited # None \/ value = None THEN b
       ELSE IF ~Parse(parse_fn, value).ok
            THEN [b EXCEPT !.exited = "Invalid value for limit"]
       ELSE IF IsInvalidLimit(Parse(parse_fn, value).value)
            THEN [b EXCEPT !.rlimits = (key :> Parse(parse_fn, value).value) @@ b.rlimits,
                           !.exited = "needs to be a positive number"]
       ELSE [b EXCEPT !.rlimits = (key :> Parse(parse_fn, value).value) @@ b.rlimits]

\* dict.pop(key) as far as the dict is concerned.
Without(dict, key) == [k \in DOMAIN dict \ {key} |-> dict[k]]

\* dict[key] = value
With(dict, key, value) == (key :> value) @@ Without(dict, key)

\* Lines 266-279 with the hard time limit taking the place of the time limit
\* whenever both are present.
ReconcileHardTimeLimit_HardAlwaysWins(b) ==
    IF b.exited # None \/ HARDTIMELIMIT \notin DOMAIN b.rlimits THEN b
    ELSE [b EXCEPT !.rlimits = With(Without(b.rlimits, HARDTIMELIMIT), TIMELIMIT,
                                    b.rlimits[HARDTIMELIMIT])]

\* Lines 266-279: the hard time limit is taken out of rlimits and merged
\* into the time limit and the soft time limit.
ReconcileHardTimeLimit(b) ==
    IF b.exited # None \/ HARDTIMELIMIT \notin DOMAIN b.rlimits THEN b
    ELSE LET hardtimelimit == b.rlimits[HARDTIMELIMIT]
             popped == Without(b.rlimits, HARDTIMELIMIT)
         IN IF TIMELIMIT \in DOMAIN popped
            THEN IF hardtimelimit < popped[TIMELIMIT]
                 THEN [b EXCEPT !.rlimits = popped,
                                !.warnings = Append(@, [kind |-> "hard timelimit smaller",
                                                        names |-> <<>>])]
                 ELSE IF hardtimelimit > popped[TIMELIMIT]
                 THEN [b EXCEPT !.rlimits =
                          With(With(popped, SOFTTIMELIMIT, popped[TIMELIMIT]),
                               TIMELIMIT, hardtimelimit)]
                 ELSE [b EXCEPT !.rlimits = popped]
            ELSE [b EXCEPT !.rlimits = With(popped, TIMELIMIT, hardtimelimit)]

\* The five calls of handle_limit_value of lines 254-264, in their order: the
\* key, the command-line value and the parse function of each.
LimitCalls(cfg) ==
    <<[key |-> TIMELIMIT, cmdline_value |-> cfg.timelimit,
       parse_fn |-> "util.parse_timespan_value"],
      [key |-> HARDTIMELIMIT, cmdline_value |-> cfg.timelimit,
       parse_fn |-> "util.parse_timespan_value"],
      [key |-> WALLTIMELIMIT, cmdline_value |-> cfg.walltimelimit,
       parse_fn |-> "util.parse_timespan_value"],
      [key |-> MEMLIMIT, cmdline_value |-> cfg.memorylimit,
       parse_fn |-> "parse_memory_limit"],
      [key |-> CORELIMIT, cmdline_value |-> cfg.corelimit, parse_fn |-> "int"]>>

\* The calls from the i-th on, made one after the other on b.
RECURSIVE HandleLimits(_, _, _, _)
HandleLimits(b, declared, calls, i) ==
    IF i > Len(calls) THEN b
    ELSE HandleLimits(
            handle_limit_value(b, declared, calls[i].key, calls[i].cmdline_value,
                               calls[i].parse_fn),
            declared, calls, i + 1)

\* Lines 252-279 of Benchmark.__init__: self.rlimits from the attributes of
\* rootTag and the command line.
ResolveLimits(b, declared, cfg) ==
    ReconcileHardTimeLimit(HandleLimits(b, declared, LimitCalls(cfg), 1))

\* ----------------------------------------------------- Requirements.__init__
MaxRequire == 2     \* <require> tags of a benchmark definition

\* A Requirements object under construction: each value is <<>> for None
\* and <<v>> for the value v.
NoRequirements ==
    [cpu_model |-> <<>>, cpu_cores |-> <<>>, memory |-> <<>>,
     warnings |-> 0, raised |-> None]

\* Lines 1135-1140: the cpuModel attribute of a <require> tag.
RequireCpuModel(self, requireTag) ==
    LET cpu_model == Get(requireTag, "cpuModel")
    IN IF self.raised # None \/ ~Truthy(cpu_model) THEN self
       ELSE IF self.cpu_model = <<>> THEN [self EXCEPT !.cpu_model = <<cpu_model>>]
       ELSE [self EXCEPT !.raised = "Double specification of required CPU model."]

\* Lines 1142-1148 with a second cpuCores attribute replacing the first.
RequireCpuCores_LastWins(self, requireTag) ==
    LET cpu_cores == Get(requireTag, "cpuCores")
    IN IF self.raised # None \/ ~Truthy(cpu_cores) THEN self
       ELSE IF ~int(cpu_cores).ok THEN [self EXCEPT !.raised = "ValueError"]
       ELSE [self EXCEPT !.cpu_cores = <<int(cpu_cores).value>>]

\* Lines 1142-1148: the cpuCores attribute.
RequireCpuCores(self, requireTag) ==
    LET cpu_cores == Get(requireTag, "cpuCores")
    IN IF self.raised # None \/ ~Truthy(cpu_cores) THEN self
       ELSE IF self.cpu_cores = <<>>
            THEN IF int(cpu_cores).ok
                 THEN [self EXCEPT !.cpu_cores = <<int(cpu_cores).value>>]
                 ELSE [self EXCEPT !.raised = "ValueError"]
       ELSE [self EXCEPT !.raised = "Double specification of required CPU cores."]

\* Lines 1150-1164: the memory attribute; a bare number counts megabytes and
\* is warned about.
RequireMemory(self, requireTag) ==
    LET memory == Get(requireTag, "memory")
    IN IF self.raised # None \/ ~Truthy(memory) THEN self
       ELSE IF self.memory = <<>>
            THEN IF int(memory).ok
                 THEN [self EXCEPT
                          !.memory = <<int(memory).value * BYTE_FACTOR * BYTE_FACTOR>>,
                          !.warnings = @ + 1]
                 ELSE IF parse_memory_value(memory).ok
                 THEN [self EXCEPT !.memory = <<parse_memory_value(memory).value>>]
                 ELSE [self EXCEPT !.raised = "ValueError"]
       ELSE [self EXCEPT !.raised = "Double specification of required memory."]

\* The loop over the <require> tags, from tag i on.
RECURSIVE RequireTags(_, _, _)
RequireTags(self, tags, i) ==
    IF i > Len(tags) THEN self
    ELSE RequireTags(
            RequireMemory(RequireCpuCores(RequireCpuModel(self, tags[i]), tags[i]),
                          tags[i]),
            tags, i + 1)

\* rlimits.get(key, None) as an optional value
GetOpt(dict, key) == IF key \in DOMAIN dict THEN <<dict[key]>> ELSE <<>>

\* Lines 1168-1172 with the limit used also when a value was declared.
RequireFallback_LimitFirst(self, limits) ==
    [self EXCEPT
        !.cpu_cores = IF GetOpt(limits, CORELIMIT) # <<>>
                      THEN GetOpt(limits, CORELIMIT) ELSE @,
        !.memory = IF GetOpt(limits, MEMLIMIT) # <<>>
                   THEN GetOpt(limits, MEMLIMIT) ELSE @]

\* Lines 1168-1172: values that are still None are taken from the limits.
RequireFallback(self, limits) ==
    [self EXCEPT
        !.cpu_cores = IF @ = <<>> THEN GetOpt(limits, CORELIMIT) ELSE @,
        !.memory = IF @ = <<>> THEN GetOpt(limits, MEMLIMIT) ELSE @]

\* Lines 1178-1184 without the test of the memory.
RequireValid_CoresOnly(self) ==
    IF self.cpu_cores # <<>> /\ self.cpu_cores[1] <= 0
    THEN [self EXCEPT !.raised = "Invalid value for required CPU cores."]
    ELSE self

\* Lines 1178-1184: the values must be positive.
RequireValid(self) ==
    IF self.cpu_cores # <<>> /\ self.cpu_cores[1] <= 0
    THEN [self EXCEPT !.raised = "Invalid value for required CPU cores."]
    ELSE IF self.memory # <<>> /\ self.memory[1] <= 0
    THEN [self EXCEPT !.raised = "Invalid value for required memory."]
    ELSE self

\* Requirements.__init__(tags, rlimits, config)
Requirements(tags, limits, cfg) ==
    LET declared == RequireTags(NoRequirements, tags, 1)
        filled == RequireFallback(declared, limits)
        overridden == IF cfg.cpu_model # None
                      THEN [filled EXCEPT !.cpu_model = <<cfg.cpu_model>>]
                      ELSE filled
    IN IF declared.raised # None THEN declared ELSE RequireValid(overridden)

\* ------------------------------------------------------------ RunSet.__init__
MaxOptions == 2     \* options declared at one level of the benchmark definition
MaxRunSets == 2     \* <rundefinition> tags of a benchmark definition

\* substitute_vars(oldList, runSet, task_file) for the options of the model:
\* ${rundefinition_name} and, for an input file, ${inputfile_name} are
\* replaced, every other string is kept.
SubstituteOption(option, real_name, task_file) ==
    CASE option = "${rundefinition_name}" ->
            (IF Truthy(real_name) THEN real_name ELSE "")
      [] option = "${inputfile_name}" /\ ~IsTaskDefinition(task_file) -> task_file
      [] OTHER -> option

substitute_vars(oldList, real_name, task_file) ==
    [i \in DOMAIN oldList |-> SubstituteOption(oldList[i], real_name, task_file)]

\* Line 885 with the options of the block put first.
RunOptions_BlockFirst(runSet_options, fileOptions) == fileOptions \o runSet_options

\* self.options = runSet.options + fileOptions if fileOptions else runSet.options
RunOptions(runSet_options, fileOptions) ==
    IF fileOptions # <<>> THEN runSet_options \o fileOptions ELSE runSet_options

\* a or b for optional strings
Or(a, b) == IF Truthy(a) THEN a ELSE b

\* The Run that create_run_for_input_file returns for an identifier of a
\* <tasks> tag; combined_options records self.options before substitution.
RunOfBlock(identifier, sourcefilesTag, runSet) ==
    LET combined == RunOptions(runSet.options, sourcefilesTag.options)
    IN [specific_options |-> sourcefilesTag.options,
        combined_options |-> combined,
        options |-> substitute_vars(combined, runSet.real_name, identifier),
        declared_propertyfile |-> Or(sourcefilesTag.propertyfile, runSet.propertyfile)]
       @@ create_run_for_input_file(
              identifier, Or(sourcefilesTag.propertyfile, runSet.propertyfile)).run[1]

\* [run for block in self.blocks for run in block.runs]
RECURSIVE Flatten(_, _)
Flatten(blocks, i) ==
    IF i > Len(blocks) THEN <<>> ELSE blocks[i].runs \o Flatten(blocks, i + 1)

\* JoinNames with the first name only.
JoinNames_FirstOnly(names) ==
    LET kept == SelectSeq(names, Truthy)
    IN IF kept = <<>> THEN "" ELSE kept[1]

\* ".".join(filter(None, names)) for the names of line 465-468
JoinNames(names) ==
    LET kept == SelectSeq(names, Truthy)
    IN IF kept = <<>> THEN ""
       ELSE IF Len(kept) = 1 THEN kept[1]
       ELSE kept[1] \o "." \o kept[2]

\* RunSet.should_be_executed with a run set without a declared name taken as
\* matching every pattern.
should_be_executed_UnnamedMatches(real_name, selected_run_definitions) ==
    \/ selected_run_definitions = <<>>
    \/ ~Truthy(real_name)
    \/ \E k \in DOMAIN selected_run_definitions :
          wildcard_match(real_name, selected_run_definitions[k])

\* RunSet.should_be_executed
should_be_executed(real_name, selected_run_definitions) ==
    \/ selected_run_definitions = <<>>
    \/ \E k \in DOMAIN selected_run_definitions :
          wildcard_match(real_name, selected_run_definitions[k])

\* Lines 478-490: one warning for every run whose base name an earlier run
\* of the run set has.
TwiceWarnings(run_list) ==
    LET twice == {i \in DOMAIN run_list :
                     \E j \in 1..(i - 1) : run_list[j].identifier = run_list[i].identifier}
    IN [k \in 1..Cardinality(twice) |-> [kind |-> "appears twice", names |-> <<>>]]

\* RunSet.__init__(rundefinitionTag, benchmark, index, globalSourcefilesTags):
\* b is the Benchmark as far as it is constructed.
RunSet(rundefinitionTag, b, index, globalSourcefilesTags, cfg) ==
    LET real_name == rundefinitionTag.name
        self == [real_name |-> real_name,
                 options |-> b.options \o rundefinitionTag.options,
                 propertyfile |-> Or(rundefinitionTag.propertyfile, b.propertyfile)]
        sourcefilesTagList == globalSourcefilesTags \o rundefinitionTag.tasks
        extracted == extract_runs_from_xml(sourcefilesTagList,
                                           cfg.selected_sourcefile_sets)
        blocks == [k \in DOMAIN extracted.blocks |->
                      LET sourcefilesTag ==
                              sourcefilesTagList[extracted.blocks[k].index + 1]
                      IN [runs |-> [n \in DOMAIN sourcefilesTag.identifiers |->
                                       RunOfBlock(sourcefilesTag.identifiers[n],
                                                  sourcefilesTag, self)]]
                         @@ extracted.blocks[k]]
        run_list == Flatten(blocks, 1)
        name == JoinNames(IF Len(blocks) = 1
                          THEN <<real_name, blocks[1].real_name>>
                          ELSE <<real_name>>)
    IN [index |-> index,
        should_be_executed |->
            should_be_executed(real_name, cfg.selected_run_definitions),
        blocks |-> blocks,
        runs |-> run_list,
        name |-> name,
        full_name |-> b.name \o (IF name # "" THEN "." \o name ELSE ""),
        logs |-> [k \in DOMAIN extracted.warnings |->
                     [kind |-> "tasks not present",
                      names |-> <<extracted.warnings[k]>>]]
                 \o (IF should_be_executed(real_name, cfg.selected_run_definitions)
                     THEN TwiceWarnings(run_list) ELSE <<>>)]
       @@ self

\* ---------------------------------------------------------- Benchmark.__init__
\* Lines 352-372: the warnings on the selection of the run sets.
RunSetSelectionWarnings(run_sets, selected_run_definitions) ==
    IF ~\E i \in DOMAIN run_sets :
           should_be_executed(run_sets[i].real_name, selected_run_definitions)
    THEN <<[kind |-> "nothing will be executed", names |-> <<>>]>>
         \o (IF selected_run_definitions # <<>>
             THEN <<[kind |-> "selection does not match",
                     names |-> selected_run_definitions]>>
             ELSE <<>>)
    ELSE [k \in 1..Len(SelectSeq(selected_run_definitions,
                LAMBDA sel : ~\E i \in DOMAIN run_sets :
                                 wildcard_match(run_sets[i].real_name, sel))) |->
            [kind |-> "run definition not present",
             names |-> <<SelectSeq(selected_run_definitions,
                LAMBDA sel : ~\E i \in DOMAIN run_sets :
                                 wildcard_match(run_sets[i].real_name, sel))[k]>>]]

RECURSIVE LogsOf(_, _)
LogsOf(run_sets, i) ==
    IF i > Len(run_sets) THEN <<>> ELSE run_sets[i].logs \o LogsOf(run_sets, i + 1)

\* Lines 185-187: the name of the benchmark file bench.xml without its ending,
\* followed by the name of the command line if there is one.
BenchmarkName(cfg) ==
    IF Truthy(cfg.name) THEN "bench" \o "." \o cfg.name ELSE "bench"

\* Benchmark.__init__(benchmark_file, config, start_time) for the parsed
\* definition doc: the Benchmark it leaves, or the exit that ends it.
Benchmark(doc, cfg) ==
    LET started == [name |-> BenchmarkName(cfg), exited |-> None,
                    rlimits |-> EmptyDict,
                    warnings |-> <<>>, options |-> <<>>, propertyfile |-> None,
                    requirements |-> <<>>, run_sets |-> <<>>]
        limited == ResolveLimits(started, doc.limits, cfg)
        self == [limited EXCEPT !.options = doc.options,
                                !.propertyfile = doc.propertyfile]
        required == Requirements(doc.require, self.rlimits, cfg)
        run_sets == [i \in DOMAIN doc.rundefinitions |->
                        RunSet(doc.rundefinitions[i], self, i, doc.tasks, cfg)]
    IN IF limited.exited # None THEN limited
       ELSE IF required.raised # None
            THEN [self EXCEPT !.exited = required.raised,
                              !.requirements = <<required>>]
       ELSE [self EXCEPT
                !.requirements = <<required>>,
                !.run_sets = run_sets,
                !.warnings = @ \o LogsOf(run_sets, 1)
                    \o (IF run_sets = <<>>
                        THEN <<[kind |-> "no runs to execute", names |-> <<>>]>>
                        ELSE <<>>)
                    \o RunSetSelectionWarnings(run_sets, cfg.selected_run_definitions)]

\* The keys log_property_file_once is called with by the Run objects of b.
PropertyFileKeys(b) ==
    UNION {{ResolvePropertyFile(b.run_sets[i].runs[n].declared_propertyfile).key :
              n \in {k \in DOMAIN b.run_sets[i].runs :
                        ResolvePropertyFile(
                            b.run_sets[i].runs[k].declared_propertyfile).logs}} :
           i \in DOMAIN b.run_sets}

\* ------------------------------------------------ the benchmark definitions
DefaultRunDefinition ==
    [name |-> "main", options |-> <<>>, propertyfile |-> None, tasks |-> <<>>]

DefaultDocument ==
    [limits |-> EmptyDict, options |-> <<>>, propertyfile |-> None,
     tasks |-> <<>>, require |-> <<>>, rundefinitions |-> <<DefaultRunDefinition>>]

DefaultConfig ==
    [name |-> None,
     timelimit |-> None, walltimelimit |-> None, memorylimit |-> None,
     corelimit |-> None, cpu_model |-> None,
     selected_run_definitions |-> <<>>, selected_sourcefile_sets |-> <<>>]

\* Benchmark.__init__ runs on the definition and the configuration read.
ConstructBenchmark ==
    /\ document # <<>>
    /\ benchmark = <<>>
    /\ \E b \in {Benchmark(document, config)} :
          \E new \in {PropertyFileKeys(b) \ logged} :
              /\ benchmark' = [b EXCEPT !.requirements = <<>>]
              /\ requirements' = b.requirements
              /\ logged' = logged \cup new
              /\ warnings' = [key \in DOMAIN warnings \cup new |->
                                 IF key \in new THEN 1 ELSE warnings[key]]
    /\ UNCHANGED <<document, config, wpc, wkey>>
    /\ UNCHANGED <<classifyVars, expandVars, selectVars, taskVars>>

\* The limits a benchmark definition declares and the command line overrides.
TimeStrings == {ToString(n) : n \in 0..MaxLimit}

LimitDeclarations ==
    {Entry(TIMELIMIT, t) @@ Entry(HARDTIMELIMIT, h) @@ Entry(WALLTIMELIMIT, w)
        @@ Entry(MEMLIMIT, mem) @@ Entry(CORELIMIT, c) :
        t \in Opt(TimeStrings), h \in Opt(TimeStrings), w \in Opt({"1min"}),
        mem \in Opt({"1kB", "3"}), c \in Opt({"2", "0"})}

LimitOverrides ==
    [timelimit : {None, "-1", " -1 ", "2", "0", "1min"},
     walltimelimit : {None, " -1 ", "3"},
     memorylimit : {None, "-1", "2kB"},
     corelimit : {None, "-1", "1"}]

\* -- SpecLimits: a definition with limits and a command line overriding them.
ReadLimits ==
    /\ document = <<>>
    /\ \E declared \in LimitDeclarations, over \in LimitOverrides :
        /\ document' = [DefaultDocument EXCEPT !.limits = declared]
        /\ config' = [DefaultConfig EXCEPT !.timelimit = over.timelimit,
                                           !.walltimelimit = over.walltimelimit,
                                           !.memorylimit = over.memorylimit,
                                           !.corelimit = over.corelimit]
    /\ UNCHANGED <<benchmark, requirements>>
    /\ UNCHANGED <<classifyVars, logVars, expandVars, selectVars, taskVars>>

NextLimits == ReadLimits \/ ConstructBenchmark

SpecLimits == InitExpand /\ [][NextLimits]_vars

\* -- SpecRequirements: a definition with <require> tags, a core limit and a
\* memory limit, and the CPU model of the command line.
RequireTagChoices ==
    {Entry("cpuModel", m) @@ Entry("cpuCores", c) @@ Entry("memory", mem) :
        m \in Opt({"Intel"}), c \in Opt({"", "0", "2"}), mem \in Opt({"2", "0kB"})}

ReadRequirements ==
    /\ document = <<>>
    /\ \E tags \in SeqsUpTo(RequireTagChoices, MaxRequire),
          c \in Opt({"1"}), mem \in Opt({"1kB"}), cpu_model \in {None, "AMD"} :
        /\ document' = [DefaultDocument EXCEPT
                           !.require = tags,
                           !.limits = Entry(CORELIMIT, c) @@ Entry(MEMLIMIT, mem)]
        /\ config' = [DefaultConfig EXCEPT !.cpu_model = cpu_model]
    /\ UNCHANGED <<benchmark, requirements>>
    /\ UNCHANGED <<classifyVars, logVars, expandVars, selectVars, taskVars>>

NextRequirements == ReadRequirements \/ ConstructBenchmark

SpecRequirements == InitExpand /\ [][NextRequirements]_vars

\* -- SpecRunSets: a definition with run sets and a selection of run sets.
RunDefinitionNames == {None, "main", "more"}
RunDefinitionPatterns == {"*", "main", "m*", "other"}

ReadRunDefinitions ==
    /\ document = <<>>
    /\ \E names \in SeqsUpTo(RunDefinitionNames, MaxRunSets),
          sel \in {l \in SeqsUpTo(RunDefinitionPatterns, MaxSelected) :
                      \A i, j \in DOMAIN l : i # j => l[i] # l[j]} :
        /\ document' = [DefaultDocument EXCEPT !.rundefinitions =
                           [i \in DOMAIN names |->
                               [DefaultRunDefinition EXCEPT !.name = names[i]]]]
        /\ config' = [DefaultConfig EXCEPT !.selected_run_definitions = sel]
    /\ UNCHANGED <<benchmark, requirements>>
    /\ UNCHANGED <<classifyVars, logVars, expandVars, selectVars, taskVars>>

NextRunSets == ReadRunDefinitions \/ ConstructBenchmark

SpecRunSets == InitExpand /\ [][NextRunSets]_vars

\* -- SpecOptions: a definition with options at the three levels and one
\* <tasks> tag, global or of the run set.
GlobalOptionChoices == {"-a", "${rundefinition_name}"}
RunSetOptionChoices == {"-a", "-r"}
BlockOptionChoices == {"-a", "${inputfile_name}"}

ReadOptions ==
    /\ document = <<>>
    /\ \E global \in SeqsUpTo(GlobalOptionChoices, MaxOptions),
          ofRunSet \in SeqsUpTo(RunSetOptionChoices, MaxOptions),
          ofBlock \in SeqsUpTo(BlockOptionChoices, MaxOptions),
          name \in {None, "main"}, isGlobal \in BOOLEAN :
        LET tasks == <<[name |-> None, options |-> ofBlock, propertyfile |-> None,
                        identifiers |-> <<"a.c", "b.c">>]>>
        IN document' = [DefaultDocument EXCEPT
                           !.options = global,
                           !.tasks = IF isGlobal THEN tasks ELSE <<>>,
                           !.rundefinitions =
                               <<[DefaultRunDefinition EXCEPT
                                     !.name = name,
                                     !.options = ofRunSet,
                                     !.tasks = IF isGlobal THEN <<>> ELSE tasks]>>]
    /\ config' = DefaultConfig
    /\ UNCHANGED <<benchmark, requirements>>
    /\ UNCHANGED <<classifyVars, logVars, expandVars, selectVars, taskVars>>

NextOptions == ReadOptions \/ ConstructBenchmark

SpecOptions == InitExpand /\ [][NextOptions]_vars

\* ---------------------------------------- claims on the run-set selection
Constructed == benchmark # <<>> /\ benchmark.exited = None

\* A pattern matches the declared name of the i-th <rundefinition> tag.
MatchesRunSet(pattern, i) ==
    /\ document.rundefinitions[i].name \notin {None, ""}
    /\ fnmatch(document.rundefinitions[i].name, pattern)

Eligible(i) ==
    \/ config.selected_run_definitions = <<>>
    \/ \E k \in DOMAIN config.selected_run_definitions :
          MatchesRunSet(config.selected_run_definitions[k], i)

\* The warnings of the benchmark that name a pattern.
WarningsNaming(pattern) ==
    {w \in DOMAIN benchmark.warnings :
        \E n \in DOMAIN benchmark.warnings[w].names :
            benchmark.warnings[w].names[n] = pattern}

WarningsOfKind(kind) ==
    {w \in DOMAIN benchmark.warnings : benchmark.warnings[w].kind = kind}

\* C13: a run set is eligible iff there is no allow-list or a pattern of it
\* matches the declared name; a pattern that matches no run set is named by
\* exactly one warning; with no eligible run set the warning 'nothing will be
\* executed' is logged.
C13_RunSetSelection ==
    Constructed =>
        /\ \A i \in DOMAIN benchmark.run_sets :
              benchmark.run_sets[i].should_be_executed <=> Eligible(i)
        /\ \A k \in DOMAIN config.selected_run_definitions :
              (~\E i \in DOMAIN document.rundefinitions :
                    MatchesRunSet(config.selected_run_definitions[k], i))
              => Cardinality(WarningsNaming(config.selected_run_definitions[k])) = 1
        /\ (~\E i \in DOMAIN document.rundefinitions : Eligible(i))
              => Cardinality(WarningsOfKind("nothing will be executed")) = 1

C13_Witness ==
    /\ Constructed
    /\ config.selected_run_definitions = <<"other", "m*">>
    /\ Len(document.rundefinitions) = 2
    /\ document.rundefinitions[1].name = "main"
    /\ document.rundefinitions[2].name = None
    /\ benchmark.run_sets[1].should_be_executed
    /\ ~benchmark.run_sets[2].should_be_executed
    /\ benchmark.warnings = <<[kind |-> "run definition not present",
                               names |-> <<"other">>]>>

\* ------------------------------------------------- claims on the limits
\* The string in use for a limit kind: the one of the command line when it
\* gives one (none for -1), else the declared one.
InUse(key, cmdline_value) ==
    IF cmdline_value = None THEN Get(document.limits, key)
    ELSE IF cmdline_value \in {"-1", " -1 "} THEN None
    ELSE cmdline_value

\* The string in use resolves to zero or less.
NonPositive(key, cmdline_value, parse_fn) ==
    /\ InUse(key, cmdline_value) # None
    /\ Parse(parse_fn, InUse(key, cmdline_value)).ok
    /\ Parse(parse_fn, InUse(key, cmdline_value)).value <= 0

\* C14: every value of the rlimits of a constructed Benchmark is strictly
\* positive, and a value in use that resolves to zero or less ends the
\* construction.
C14_LimitsPositive ==
    benchmark # <<>> =>
        /\ benchmark.exited = None =>
              \A key \in DOMAIN benchmark.rlimits : benchmark.rlimits[key] > 0
        /\ (\/ NonPositive(TIMELIMIT, config.timelimit, "util.parse_timespan_value")
            \/ NonPositive(HARDTIMELIMIT, config.timelimit, "util.parse_timespan_value")
            \/ NonPositive(WALLTIMELIMIT, config.walltimelimit, "util.parse_timespan_value")
            \/ NonPositive(MEMLIMIT, config.memorylimit, "parse_memory_limit")
            \/ NonPositive(CORELIMIT, config.corelimit, "int"))
              => benchmark.exited # None

C14_Witness ==
    /\ Constructed
    /\ document.limits = (TIMELIMIT :> "1") @@ (HARDTIMELIMIT :> "3")
                             @@ (MEMLIMIT :> "1kB") @@ (CORELIMIT :> "0")
    /\ config.corelimit = "1"
    /\ config.walltimelimit = "3"
    /\ benchmark.rlimits = (TIMELIMIT :> 3) @@ (SOFTTIMELIMIT :> 1)
                               @@ (WALLTIMELIMIT :> 3) @@ (MEMLIMIT :> 1000)
                               @@ (CORELIMIT :> 1)

\* The number a kind resolves to when an override counts for its own kind
\* only: <<>> for an absent limit.
Resolved(key, cmdline_value, parse_fn) ==
    IF InUse(key, cmdline_value) = None THEN <<>>
    ELSE <<Parse(parse_fn, InUse(key, cmdline_value)).value>>

\* The time limits that a primary limit p and a hard limit h reconcile to.
Reconciled(p, h) ==
    IF h = <<>> THEN Entry(TIMELIMIT, p)
    ELSE IF p = <<>> THEN TIMELIMIT :> h[1]
    ELSE IF h[1] > p[1] THEN (SOFTTIMELIMIT :> p[1]) @@ (TIMELIMIT :> h[1])
    ELSE TIMELIMIT :> p[1]

\* The limits when every override replaces the declared value of its own
\* kind only; there is no override for the hard time limit.
LimitsPerKind ==
    Reconciled(Resolved(TIMELIMIT, config.timelimit, "util.parse_timespan_value"),
               Resolved(HARDTIMELIMIT, None, "util.parse_timespan_value"))
      @@ Entry(WALLTIMELIMIT,
               Resolved(WALLTIMELIMIT, config.walltimelimit, "util.parse_timespan_value"))
      @@ Entry(MEMLIMIT, Resolved(MEMLIMIT, config.memorylimit, "parse_memory_limit"))
      @@ Entry(CORELIMIT, Resolved(CORELIMIT, config.corelimit, "int"))

\* C15 as stated: an override replaces the declared value of its own kind and
\* of no other kind, -1 removes the kind, and without override the declared
\* value is used: the resolved limits are those of the per-kind values.
C15_OverrideOnlyItsOwnKind ==
    Constructed => benchmark.rlimits = LimitsPerKind

\* The same for every definition and command line except those that both
\* declare a hard time limit and override the time limit.
C15_PerKindUnlessHardTimeOverridden ==
    (Constructed /\ (config.timelimit = None
                        \/ HARDTIMELIMIT \notin DOMAIN document.limits))
        => benchmark.rlimits = LimitsPerKind

\* C16: with a hard time limit h in use, no time limit gives primary = h and
\* no soft limit; h < p gives primary = p, no soft limit and a warning;
\* h > p gives soft = p and primary = h; the hard-time-limit key is never in
\* the resolved limits.
C16_HardTimeReconciled ==
    Constructed =>
        LET p == Resolved(TIMELIMIT, config.timelimit, "util.parse_timespan_value")
            h == Resolved(HARDTIMELIMIT, config.timelimit, "util.parse_timespan_value")
            limits == benchmark.rlimits
        IN /\ HARDTIMELIMIT \notin DOMAIN limits
           /\ (h # <<>> /\ p = <<>>) =>
                 /\ limits[TIMELIMIT] = h[1]
                 /\ SOFTTIMELIMIT \notin DOMAIN limits
           /\ (h # <<>> /\ p # <<>> /\ h[1] < p[1]) =>
                 /\ limits[TIMELIMIT] = p[1]
                 /\ SOFTTIMELIMIT \notin DOMAIN limits
                 /\ Cardinality(WarningsOfKind("hard timelimit smaller")) = 1
           /\ (h # <<>> /\ p # <<>> /\ h[1] > p[1]) =>
                 /\ limits[SOFTTIMELIMIT] = p[1]
                 /\ limits[TIMELIMIT] = h[1]

C16_Witness ==
    /\ Constructed
    /\ config.timelimit = None
    /\ document.limits = (TIMELIMIT :> "3") @@ (HARDTIMELIMIT :> "2")
    /\ benchmark.rlimits = (TIMELIMIT :> 3)
    /\ WarningsOfKind("hard timelimit smaller") # {}

\* --------------------------------------------- claims on the requirements
RequirementsDone == benchmark # <<>> /\ requirements # <<>>

\* The <require> tags that specify an attribute: it is present and not empty.
Specifying(attribute) ==
    {i \in DOMAIN document.require :
        /\ attribute \in DOMAIN document.require[i]
        /\ document.require[i][attribute] # ""}

DoubleSpecification ==
    {"Double specification of required CPU model.",
     "Double specification of required CPU cores.",
     "Double specification of required memory."}

\* C17: the construction fails with a duplicate-specification error if and
\* only if two <require> tags specify the CPU model, or two the CPU cores, or
\* two the memory.
C17_DuplicateRequirement ==
    RequirementsDone =>
        /\ requirements[1].raised \in DoubleSpecification
              <=> \E attribute \in {"cpuModel", "cpuCores", "memory"} :
                      Cardinality(Specifying(attribute)) >= 2
        /\ requirements[1].raised = "Double specification of required CPU model."
              => Cardinality(Specifying("cpuModel")) >= 2
        /\ requirements[1].raised = "Double specification of required CPU cores."
              => Cardinality(Specifying("cpuCores")) >= 2
        /\ requirements[1].raised = "Double specification of required memory."
              => Cardinality(Specifying("memory")) >= 2

C17_Witness ==
    /\ RequirementsDone
    /\ document.require = <<"cpuCores" :> "2",
                            ("cpuModel" :> "Intel") @@ ("cpuCores" :> "2")>>
    /\ requirements[1].raised = "Double specification of required CPU cores."
    /\ benchmark.exited # None

\* The value the one tag specifying an attribute declares.
Declared(attribute) ==
    document.require[CHOOSE i \in Specifying(attribute) : TRUE][attribute]

\* The memory a declaration stands for: megabytes for a bare number.
DeclaredMemory ==
    CASE Declared("memory") = "2" -> 2000000
      [] Declared("memory") = "0kB" -> 0

DeclaredCores ==
    CASE Declared("cpuCores") = "2" -> 2
      [] Declared("cpuCores") = "0" -> 0

\* C18: without a declaration the core count (the memory) is the resolved
\* core limit (memory limit) if there is one and is absent otherwise; with a
\* declaration it is the declared value, whatever the limit.
C18_RequirementFallback ==
    (RequirementsDone /\ requirements[1].raised = None) =>
        /\ requirements[1].cpu_cores =
              IF Specifying("cpuCores") = {}
              THEN (IF CORELIMIT \in DOMAIN benchmark.rlimits
                    THEN <<benchmark.rlimits[CORELIMIT]>> ELSE <<>>)
              ELSE <<DeclaredCores>>
        /\ requirements[1].memory =
              IF Specifying("memory") = {}
              THEN (IF MEMLIMIT \in DOMAIN benchmark.rlimits
                    THEN <<benchmark.rlimits[MEMLIMIT]>> ELSE <<>>)
              ELSE <<DeclaredMemory>>

C18_Witness ==
    /\ RequirementsDone
    /\ requirements[1].raised = None
    /\ document.require = <<"memory" :> "2">>
    /\ benchmark.rlimits = (CORELIMIT :> 1) @@ (MEMLIMIT :> 1000)
    /\ requirements[1].cpu_cores = <<1>>
    /\ requirements[1].memory = <<2000000>>

\* C19: in a constructed Requirements the core count and the memory, if
\* present, are > 0, and a declared value of zero or below makes the
\* construction fail.
C19_RequirementsPositive ==
    RequirementsDone =>
        /\ requirements[1].raised = None =>
              /\ requirements[1].cpu_cores # <<>> => requirements[1].cpu_cores[1] > 0
              /\ requirements[1].memory # <<>> => requirements[1].memory[1] > 0
        /\ (\/ \E i \in Specifying("cpuCores") : document.require[i]["cpuCores"] = "0"
            \/ \E i \in Specifying("memory") : document.require[i]["memory"] = "0kB")
              => requirements[1].raised # None

C19_Witness ==
    /\ RequirementsDone
    /\ requirements[1].raised = None
    /\ document.require = <<"cpuCores" :> "2", "memory" :> "2">>
    /\ DOMAIN benchmark.rlimits = {}
    /\ requirements[1].cpu_cores = <<2>>
    /\ requirements[1].memory = <<2000000>>

\* --------------------------------------------------- claims on the options
IsPrefix(short, long) ==
    /\ Len(short) <= Len(long)
    /\ \A i \in DOMAIN short : short[i] = long[i]

\* The <tasks> tag that the block of a run set was built from.
TasksTagOf(i, k) ==
    (document.tasks \o document.rundefinitions[i].tasks)
        [benchmark.run_sets[i].blocks[k].index + 1]

\* C20: for every Run, before variable substitution, the options of the
\* benchmark are a prefix of the options of its run set, and these are a
\* prefix of the options of the Run, which are followed by the options of
\* its block and nothing else.
C20_OptionsInherited ==
    Constructed =>
        \A i \in DOMAIN benchmark.run_sets :
            /\ benchmark.options = document.options
            /\ IsPrefix(benchmark.options, benchmark.run_sets[i].options)
            /\ \A k \in DOMAIN benchmark.run_sets[i].blocks :
                  \A n \in DOMAIN benchmark.run_sets[i].blocks[k].runs :
                      LET run == benchmark.run_sets[i].blocks[k].runs[n]
                      IN /\ IsPrefix(benchmark.run_sets[i].options,
                                     run.combined_options)
                         /\ run.combined_options =
                                benchmark.run_sets[i].options
                                    \o TasksTagOf(i, k).options

C20_Witness ==
    /\ Constructed
    /\ document.options = <<"-a", "${rundefinition_name}">>
    /\ Len(benchmark.run_sets) = 1
    /\ benchmark.run_sets[1].real_name = "main"
    /\ benchmark.run_sets[1].options = <<"-a", "${rundefinition_name}", "-r">>
    /\ Len(benchmark.run_sets[1].runs) = 2
    /\ benchmark.run_sets[1].runs[2].combined_options =
           <<"-a", "${rundefinition_name}", "-r", "${inputfile_name}", "-a">>
    /\ benchmark.run_sets[1].runs[2].options =
           <<"-a", "main", "-r", "b.c", "-a">>

\* -- SpecNames: a definition with one run set and <tasks> tags, global or of
\* the run set, a selection of the tags and a name on the command line.
ReadNames ==
    /\ document = <<>>
    /\ \E name \in {None, "", "rs"}, tags \in TagLists, sel \in Selections,
          isGlobal \in BOOLEAN, config_name \in {None, "x"} :
        LET tasks == [i \in DOMAIN tags |->
                         [name |-> tags[i].name, options |-> <<>>,
                          propertyfile |-> None, identifiers |-> <<>>]]
        IN /\ document' = [DefaultDocument EXCEPT
                              !.tasks = IF isGlobal THEN tasks ELSE <<>>,
                              !.rundefinitions =
                                  <<[DefaultRunDefinition EXCEPT
                                        !.name = name,
                                        !.tasks = IF isGlobal THEN <<>> ELSE tasks]>>]
           /\ config' = [DefaultConfig EXCEPT !.name = config_name,
                                              !.selected_sourcefile_sets = sel]
    /\ UNCHANGED <<benchmark, requirements>>
    /\ UNCHANGED <<classifyVars, logVars, expandVars, selectVars, taskVars>>

NextNames == ReadNames \/ ConstructBenchmark

SpecNames == InitExpand /\ [][NextNames]_vars

\* ---------------------------------------------------- claims on the names
\* The declared name of the one block of a run set, "" when the run set has
\* no block, several blocks or a block without declared name.
OneBlockName(run_set) ==
    IF Len(run_set.blocks) = 1 /\ run_set.blocks[1].real_name # None
    THEN run_set.blocks[1].real_name ELSE ""

DeclaredName(run_set) == IF run_set.real_name = None THEN "" ELSE run_set.real_name

\* C21: the name of a run set is its declared name followed, only when it has
\* exactly one block, by '.' and the declared name of that block, absent
\* parts omitted; full_name is the benchmark name followed by '.' and that
\* name when the name is not empty.
C21_RunSetNaming ==
    Constructed =>
        \A i \in DOMAIN benchmark.run_sets :
            LET run_set == benchmark.run_sets[i]
                first == DeclaredName(run_set)
                second == OneBlockName(run_set)
            IN /\ run_set.name =
                     IF first # "" /\ second # "" THEN first \o "." \o second
                     ELSE IF first # "" THEN first
                     ELSE second
               /\ run_set.full_name =
                     IF run_set.name = "" THEN benchmark.name
                     ELSE benchmark.name \o "." \o run_set.name
               /\ benchmark.name =
                     IF config.name = None THEN "bench" ELSE "bench." \o config.name

C21_Witness ==
    /\ Constructed
    /\ config.name = "x"
    /\ config.selected_sourcefile_sets = <<"main">>
    /\ Len(document.rundefinitions[1].tasks) = 2
    /\ document.rundefinitions[1].tasks[1].name = "more"
    /\ document.rundefinitions[1].tasks[2].name = "main"
    /\ benchmark.run_sets[1].real_name = "rs"
    /\ Len(benchmark.run_sets[1].blocks) = 1
    /\ benchmark.run_sets[1].name = "rs.main"
    /\ benchmark.run_sets[1].full_name = "bench.x.rs.main"

\* ------------------------------------------- claims on the signal refinement
\* The refined verdict of the latest call as the specification tabulates it.
SpecifiedRefinement ==
    LET signal == lastCall.exitcode[1].signal
        value == lastCall.exitcode[1].value
    IN CASE lastCall.verdict \notin {"done", "unknown", "ERROR"} -> lastCall.verdict
         [] OTHER ->
            CASE signal = 6 -> "ABORTED"
              [] signal = 11 -> "SEGMENTATION FAULT"
              [] signal = 15 -> "KILLED"
              [] signal \notin {0, 6, 11, 15} ->
                    "KILLED BY SIGNAL " \o ToString(signal)
              [] signal = 0 /\ value # 0 -> "ERROR (" \o ToString(value) \o ")"
              [] OTHER -> lastCall.verdict

\* C22: with an exit descriptor, an unspecific verdict of the adapter is
\* refined to "ABORTED" (signal 6), "SEGMENTATION FAULT" (11), "KILLED" (15),
\* "KILLED BY SIGNAL n" (another signal n), an error status with the return
\* code (no signal, return value not zero) or left alone (both zero), and a
\* verdict outside the unspecific bucket is left alone. The refined verdict is
\* the status when there is no timeout and no termination reason, and the only
\* verdict a combined status can carry otherwise.
C22_SignalRefinement ==
    (Called /\ lastCall.exitcode # <<>>) =>
        IF CalledHasCondition
        THEN CalledStatus \in {CalledLabel, Format(CalledLabel, SpecifiedRefinement)}
        ELSE CalledStatus = SpecifiedRefinement

C22_Witness ==
    /\ Called
    /\ lastCall.exitcode = <<[value |-> 1, signal |-> 0]>>
    /\ lastCall.verdict = RESULT_UNKNOWN
    /\ ~CalledHasCondition
    /\ CalledStatus = "ERROR (1)"

\* ------------------------------------------- claims on the timeout detection
\* A measurement of the Run of the latest call is over a limit of the
\* benchmark: <<>> stands for a missing measurement or an absent limit.
Measured(key) ==
    IF key \in DOMAIN runs[lastCall.run].values
    THEN <<runs[lastCall.run].values[key]>> ELSE <<>>

EffectiveTimeLimit ==
    IF "softtimelimit" \in DOMAIN rlimits THEN <<rlimits["softtimelimit"]>>
    ELSE IF "timelimit" \in DOMAIN rlimits THEN <<rlimits["timelimit"]>>
    ELSE <<>>

WallTimeLimit ==
    IF "walltimelimit" \in DOMAIN rlimits THEN <<rlimits["walltimelimit"]>> ELSE <<>>

Over(measured, limit) ==
    measured # <<>> /\ limit # <<>> /\ measured[1] > limit[1]

CountsAsTimeout ==
    \/ lastCall.termination_reason \in {"cputime", "cputime-soft", "walltime"}
    \/ Over(Measured("cputime"), EffectiveTimeLimit)
    \/ Over(Measured("walltime"), WallTimeLimit)

\* C23: a run counts as timeout iff its termination reason is cputime,
\* cputime-soft or walltime, or its CPU time is strictly greater than the soft
\* time limit (else the time limit, else unbounded), or its wall time is
\* strictly greater than the wall-time limit (unbounded if absent). A run that
\* counts as timeout has a status based on "TIMEOUT"; a run that does not and
\* has no declared termination reason has the adapter's verdict as status.
C23_TimeoutDetection ==
    Called =>
        /\ lastCall.isTimeout <=> CountsAsTimeout
        /\ CountsAsTimeout =>
              CalledStatus \in {"TIMEOUT", Format("TIMEOUT", CalledVerdict)}
        /\ (~CountsAsTimeout /\ ~CalledDeclared) => CalledStatus = CalledVerdict

\* A CPU time at the time limit and a wall time at the wall-time limit, or a
\* missing one, with no declared termination reason: no timeout.
C23_Witness ==
    /\ Called
    /\ ~CalledDeclared
    /\ \/ /\ Measured("cputime") = <<10>>
          /\ EffectiveTimeLimit = <<10>>
          /\ Measured("walltime") = <<>>
       \/ /\ Measured("walltime") = <<10>>
          /\ WallTimeLimit = <<10>>
    /\ ~lastCall.isTimeout
    /\ CalledStatus = CalledVerdict

\* ------------------------------------------------ claims on the isolation
\* C24: a set_result call on one Run leaves the status, the category, the
\* values and the column values of every other Run as they were, and the
\* column templates of the benchmark keep their text and their empty value,
\* whatever the order of the calls on the Runs.
C24_PerRunIsolation ==
    /\ [][\A r \in DOMAIN runs :
            runs'[r].calls # runs[r].calls =>
                /\ \A q \in DOMAIN runs \ {r} : runs'[q] = runs[q]
                /\ columns' = columns]_vars
    /\ [](\A i \in DOMAIN columns : columns[i].value = "")

\* Two Runs with their own results, the second given after the first, beside
\* a column template that still has no value.
C24_Witness ==
    /\ columns # <<>>
    /\ \E r, q \in DOMAIN runs :
        /\ r # q
        /\ lastCall.run = q
        /\ runs[r].calls = 1
        /\ runs[q].calls = 1
        /\ runs[r].status = "OUT OF MEMORY"
        /\ runs[q].status = "TRUE"
        /\ runs[r].values # runs[q].values
        /\ runs[r].sourcefiles # <<>>
        /\ runs[r].columns[1].value # ""

\* --------------------------------------------- claims on the column values
\* C25: set_result completes for every constructed Run, a Run without input
\* file in a benchmark with a column included: no failure occurs and every
\* column of the Run has the value extracted from the output.
C25_SetResultCompletes ==
    \A r \in DOMAIN runs :
        runs[r].calls > 0 =>
            /\ runs[r].raised = None
            /\ \A i \in DOMAIN runs[r].columns :
                  runs[r].columns[i].value =
                      get_value_from_output("log", runs[r].columns[i].text)

\* What holds instead: set_result assigns status and category in every call,
\* and fails in the loop over the columns exactly for a Run without input file
\* that has a column, whose column values stay empty.
C25_FailsWithoutInputFile ==
    \A r \in DOMAIN runs :
        runs[r].calls > 0 =>
            /\ runs[r].status = CalledStatus
            /\ runs[r].raised = "IndexError"
                  <=> (runs[r].sourcefiles = <<>> /\ runs[r].columns # <<>>)
            /\ runs[r].raised = "IndexError"
                  => \A i \in DOMAIN runs[r].columns : runs[r].columns[i].value = ""

====
